---------------------------- MODULE Spec2Model ----------------------------
(***************************************************************************)
(* A model of the form-filling pipeline: the verification match policy     *)
(* (core/verifier.py), the post-submit decision rule (main.py), the greedy *)
(* IoU suppression (core/vision.py, core/dom_mapper.py), the field         *)
(* classifier cascade (core/field_classifier.py, semantic_classifier.py),  *)
(* the fill engine (core/filler.py) and the page run and the batch loop    *)
(* (main.py).                                                              *)
(*                                                                         *)
(* Text is a sequence of one-character strings (verifier) or a sequence of *)
(* atoms, i.e. words and separators (classifier).  Each component has its  *)
(* own variables and its own specification; a specification keeps the      *)
(* variables of the other components at their idle values.                 *)
(***************************************************************************)
EXTENDS Integers, Sequences, FiniteSets, TLC

VARIABLES
    \* VerificationEngine._is_match: the two values and the verdict
    mExpected, mActual, mResult,
    \* _post_submit_ocr_signal: OCR outcome, matched pattern labels, verdict
    ocrOk, sMatches, fMatches, signal,
    \* IoU suppression: the detections handed in, the suppressor, the survivors
    detections, dedupBy, kept,
    \* the survivors of the suppression applied to its own output, as indices
    \* into that output
    rekept,
    \* classify: the element classified and the results of the calls so far
    cInput, cResults,
    \* semantic_classifier module state: _model, _embeddings_cache; load attempts made
    model, embCache, loadAttempts,
    \* fill_field: the element and value, the position in the function, the
    \* interactions attempted, the outcome, the attempt of the generic loop
    fElem, fValue, fpc, fTried, fResult, fAttempt,
    \* process_batch: the URLs, the position in them, the state of the batch
    urls, cursor, batch,
    \* process_url: position, the page and whether it is open, the mapped
    \* elements, the dynamic elements, the indexes of the fillable elements, the
    \* loop index, filled_count, the result record
    pc, page, pageOpen, elements, dynElements, fillable, idx, filledCount, result,
    \* self.results as save_results exports it
    results,
    \* history: the calls of fill_field in this page run, and the failed fills
    \* and verifications per element
    fillCalls, failures,
    \* the coordinate transforms: the screenshot box, the page metrics, the box in viewport space and the box converted back
    cBox, cMetrics, cView, cBack,
    \* what handle_input_mask and _type_phone typed into the element, one string per successful call
    fTyped,
    \* the locators: the frames of the page with their DOM nodes, the harvested items, the step, the item looked up and what the lookup returned
    lFrames, lItems, lpc, lTarget, lFound,
    \* the native select: its options in document order, the value asked for, and the option _select_option selected
    sOptions, sTarget, sPicked,
    \* DOMMapper.find_form_elements over two detection passes
    uNodes, uLater, uBoxes, uElements, uHanded, upc,
    \* the outcome recorded for a clicked submission
    oDom, oOutcome

matchVars  == <<mExpected, mActual, mResult>>
signalVars == <<ocrOk, sMatches, fMatches, signal>>
dedupVars  == <<detections, dedupBy, kept, rekept>>
classifyVars == <<cInput, cResults>>
semanticVars == <<model, embCache, loadAttempts>>
fillVars == <<fElem, fValue, fpc, fTried, fResult, fAttempt>>
pageVars == <<urls, cursor, batch, pc, page, pageOpen, elements, dynElements, fillable, idx,
              filledCount, result, results, fillCalls, failures>>

\* What an action of one component leaves alone
coordVars == <<cBox, cMetrics, cView, cBack>>
typedVars == <<fTyped>>
locateVars == <<lFrames, lItems, lpc, lTarget, lFound>>
selectVars == <<sOptions, sTarget, sPicked>>
fuseVars == <<uNodes, uLater, uBoxes, uElements, uHanded, upc>>
outcomeVars == <<oDom, oOutcome>>
notMatch  == <<signalVars, dedupVars, classifyVars, semanticVars, fillVars, pageVars, coordVars, typedVars, locateVars, selectVars, fuseVars, outcomeVars>>
notSignal == <<matchVars, dedupVars, classifyVars, semanticVars, fillVars, pageVars, coordVars, typedVars, locateVars, selectVars, fuseVars>>
notDedup  == <<matchVars, signalVars, classifyVars, semanticVars, fillVars, pageVars, coordVars, typedVars, locateVars, selectVars, fuseVars, outcomeVars>>
notClassify == <<matchVars, signalVars, dedupVars, fillVars, pageVars, coordVars, typedVars, locateVars, selectVars, fuseVars, outcomeVars>>
notFill == <<matchVars, signalVars, dedupVars, classifyVars, semanticVars, pageVars, coordVars, typedVars, locateVars, selectVars, fuseVars, outcomeVars>>
pageOthers == <<matchVars, signalVars, dedupVars, classifyVars, fillVars, coordVars, typedVars, locateVars, selectVars, fuseVars, outcomeVars>>
notPage == <<pageOthers, semanticVars>>
notFillTyped == <<matchVars, signalVars, dedupVars, classifyVars, semanticVars, pageVars, coordVars, locateVars, selectVars, fuseVars, outcomeVars>>
notLocate == <<matchVars, signalVars, dedupVars, classifyVars, semanticVars, fillVars, pageVars, coordVars, typedVars, selectVars, fuseVars, outcomeVars>>
notSelect == <<matchVars, signalVars, dedupVars, classifyVars, semanticVars, fillVars, pageVars, coordVars, typedVars, locateVars, fuseVars, outcomeVars>>
notFuse == <<matchVars, signalVars, dedupVars, classifyVars, semanticVars, fillVars, pageVars, coordVars, typedVars, locateVars, selectVars, outcomeVars>>
notCoord == <<matchVars, signalVars, dedupVars, classifyVars, semanticVars, fillVars, pageVars, typedVars, locateVars, selectVars, fuseVars, outcomeVars>>

-----------------------------------------------------------------------------
(* Generic helpers *)

Min(a, b) == IF a < b THEN a ELSE b
Max(a, b) == IF a > b THEN a ELSE b

\* All sequences over S of length at most n
SeqsUpTo(S, n) == UNION {[1..k -> S] : k \in 0..n}

\* sub occurs in s as a contiguous run (Python's `sub in s`)
Contains(sub, s) ==
    \E i \in 0..(Len(s) - Len(sub)) : SubSeq(s, i + 1, i + Len(sub)) = sub

\* s[:n]
Prefix(s, n) == SubSeq(s, 1, Min(n, Len(s)))

RECURSIVE SumOver(_, _)
SumOver(S, w) ==
    IF S = {} THEN 0
    ELSE LET x == CHOOSE y \in S : TRUE IN w[x] + SumOver(S \ {x}, w)

-----------------------------------------------------------------------------
(* core/verifier.py: the match policy *)

\* Bounds of the values checked
MaxShortLen == 2
MaxLongLen == 8

WhiteSpace == {" ", "\t"}
Digits == {"0", "1", "2", "3", "4", "5", "6", "7", "8", "9"}
ShortAlphabet == {"a", "A", " ", "\t", "1"}
LongAlphabet == {"1", "-"}

Values == SeqsUpTo(ShortAlphabet, MaxShortLen) \cup SeqsUpTo(LongAlphabet, MaxLongLen)

LowerChar(c) == IF c = "A" THEN "a" ELSE c

RECURSIVE LStrip(_)
LStrip(s) == IF s # <<>> /\ Head(s) \in WhiteSpace THEN LStrip(Tail(s)) ELSE s

RECURSIVE RStrip(_)
RStrip(s) ==
    IF s # <<>> /\ s[Len(s)] \in WhiteSpace THEN RStrip(SubSeq(s, 1, Len(s) - 1)) ELSE s

\* str.strip()
Strip(s) == RStrip(LStrip(s))

\* str.lower()
Lower(s) == [i \in 1..Len(s) |-> LowerChar(s[i])]

\* re.sub(r"\s+", " ", value)
RECURSIVE CollapseSpace(_)
CollapseSpace(s) ==
    IF s = <<>> THEN <<>>
    ELSE IF Head(s) \in WhiteSpace
         THEN <<" ">> \o CollapseSpace(LStrip(s))
         ELSE <<Head(s)>> \o CollapseSpace(Tail(s))

NormalizeText(value) == CollapseSpace(Lower(Strip(value)))

IsDigit(c) == c \in Digits

\* re.sub(r"\D", "", value)
DigitsOnly(value) == SelectSeq(value, IsDigit)

MinTruncLen == 5
MinDigits == 7

\* _is_match without the early rejection of an empty actual value
IsMatchNoEmptyCheck(actual_value, expected_value) ==
    LET actual == NormalizeText(actual_value)
        expected == NormalizeText(expected_value)
        actual_digits == DigitsOnly(actual)
        expected_digits == DigitsOnly(expected)
    IN  IF expected = <<>> THEN TRUE
        ELSE IF actual = expected THEN TRUE
        ELSE IF Contains(expected, actual) \/ Contains(actual, expected) THEN TRUE
        ELSE IF Len(actual) >= MinTruncLen /\ Prefix(expected, Len(actual)) = actual THEN TRUE
        ELSE IF Len(expected) >= MinTruncLen /\ Prefix(actual, Len(expected)) = expected THEN TRUE
        ELSE IF Len(expected_digits) >= MinDigits /\ Contains(expected_digits, actual_digits)
             THEN TRUE
        ELSE IF Len(actual_digits) >= MinDigits /\ Contains(actual_digits, expected_digits)
             THEN TRUE
        ELSE FALSE

IsMatch(actual_value, expected_value) ==
    LET actual == NormalizeText(actual_value)
        expected == NormalizeText(expected_value)
        actual_digits == DigitsOnly(actual)
        expected_digits == DigitsOnly(expected)
    IN  IF expected = <<>> THEN TRUE
        ELSE IF actual = <<>> THEN FALSE
        ELSE IF actual = expected THEN TRUE
        ELSE IF Contains(expected, actual) \/ Contains(actual, expected) THEN TRUE
        ELSE IF Len(actual) >= MinTruncLen /\ Prefix(expected, Len(actual)) = actual THEN TRUE
        ELSE IF Len(expected) >= MinTruncLen /\ Prefix(actual, Len(expected)) = expected THEN TRUE
        ELSE IF Len(expected_digits) >= MinDigits /\ Contains(expected_digits, actual_digits)
             THEN TRUE
        ELSE IF Len(actual_digits) >= MinDigits /\ Contains(actual_digits, expected_digits)
             THEN TRUE
        ELSE FALSE

MatchIdle == mExpected = <<>> /\ mActual = <<>> /\ mResult = "none"

\* verify_fill hands the value read from the page and the intended value to _is_match
VerifyMatch ==
    /\ mResult = "none"
    /\ \E a \in Values :
        /\ mActual' = a
        /\ mResult' = IF IsMatch(a, mExpected) THEN "match" ELSE "mismatch"
    /\ UNCHANGED <<mExpected, notMatch>>

-----------------------------------------------------------------------------
(* main.py: _post_submit_ocr_signal, the decision over the two scores *)

\* At most this many patterns of each table match the page text
MaxMatches == 2

SuccessLabels == {"thank_you", "thanks_for_contacting", "message_sent", "form_submitted",
                  "submission_received", "we_will_contact", "api_json", "api_form_payload",
                  "submitted_word"}

FailureLabels == {"field_error", "required_fields", "field_required", "invalid_input",
                  "enter_valid_value", "please_choose", "please_select", "check_try_again",
                  "captcha", "verification_failed", "something_wrong"}

\* success_patterns: label -> weight
SuccessWeight ==
    [l \in SuccessLabels |->
        IF l \in {"api_json", "api_form_payload"} THEN 2
        ELSE IF l = "submitted_word" THEN 1
        ELSE 3]

\* failure_patterns: label -> weight
FailureWeight ==
    [l \in FailureLabels |->
        IF l \in {"field_error", "captcha"} THEN 4
        ELSE IF l \in {"required_fields", "invalid_input", "enter_valid_value"} THEN 2
        ELSE IF l \in {"please_choose", "please_select"} THEN 1
        ELSE 3]

SignificanceThreshold == 3

SuccessScore(sm) == SumOver(sm, SuccessWeight)
FailureScore(fm) == SumOver(fm, FailureWeight)

\* The decision with a tie going to success
DecideTieSuccess(success_score, failure_score) ==
    IF success_score >= SignificanceThreshold /\ failure_score >= SignificanceThreshold
    THEN IF failure_score > success_score
         THEN [success |-> FALSE, failure |-> TRUE]
         ELSE [success |-> TRUE, failure |-> FALSE]
    ELSE IF success_score >= SignificanceThreshold THEN [success |-> TRUE, failure |-> FALSE]
    ELSE IF failure_score >= SignificanceThreshold THEN [success |-> FALSE, failure |-> TRUE]
    ELSE [success |-> FALSE, failure |-> FALSE]

\* lines 713-723
Decide(success_score, failure_score) ==
    IF success_score >= SignificanceThreshold /\ failure_score >= SignificanceThreshold
    THEN IF failure_score >= success_score
         THEN [success |-> FALSE, failure |-> TRUE]
         ELSE [success |-> TRUE, failure |-> FALSE]
    ELSE IF success_score >= SignificanceThreshold THEN [success |-> TRUE, failure |-> FALSE]
    ELSE IF failure_score >= SignificanceThreshold THEN [success |-> FALSE, failure |-> TRUE]
    ELSE [success |-> FALSE, failure |-> FALSE]

NoSignal == [success |-> FALSE, failure |-> FALSE, s_score |-> 0, f_score |-> 0,
             failure_matches |-> {}]

\* The whole function: an unreadable screenshot or an OCR exception yields no signal
\* and no score; otherwise the scores of the matched patterns decide.
PostSubmitOcrSignal(ok, sm, fm) ==
    IF ~ok THEN NoSignal
    ELSE LET d == Decide(SuccessScore(sm), FailureScore(fm))
         IN  [success |-> d.success, failure |-> d.failure,
              s_score |-> SuccessScore(sm), f_score |-> FailureScore(fm),
              failure_matches |-> fm]

MatchSets(L) == {m \in SUBSET L : Cardinality(m) <= MaxMatches}

SignalIdle == ocrOk = TRUE /\ sMatches = {} /\ fMatches = {} /\ signal = <<>>

ReadSignal ==
    /\ signal = <<>>
    /\ \E ok \in BOOLEAN, fm \in MatchSets(FailureLabels) :
        /\ ocrOk' = ok
        /\ fMatches' = fm
        /\ signal' = <<PostSubmitOcrSignal(ok, sMatches, fm)>>
    /\ UNCHANGED <<sMatches, outcomeVars, notSignal>>

-----------------------------------------------------------------------------
(* core/vision.py _dedupe_boxes and core/dom_mapper.py _deduplicate_detections: *)
(* the greedy IoU suppression.  A box is (x, y, w, h) in screenshot pixels.      *)

\* At most this many detections are handed to one suppression
MaxBoxes == 3

BoxXs == {0, 20, 60}
BoxYs == {0, 10}
BoxWs == {30, 45, 100}
BoxHs == {10, 20}
BoxSet == [x : BoxXs, y : BoxYs, w : BoxWs, h : BoxHs]

\* iou_threshold as a fraction: 0.3 (fusion) and 0.45 (visual detector)
FusionThreshold == [num |-> 3, den |-> 10]
VisualThreshold == [num |-> 9, den |-> 20]

\* 1e-6, the term added to the union, as 1 / EpsilonInverse
EpsilonInverse == 1000000

Area(b) == b.w * b.h

Intersection(a, b) ==
    Max(0, Min(a.x + a.w, b.x + b.w) - Max(a.x, b.x))
        * Max(0, Min(a.y + a.h, b.y + b.h) - Max(a.y, b.y))

UnionArea(a, b) == Area(a) + Area(b) - Intersection(a, b)


\* inter / (area_a + area_b - inter + 1e-6) < threshold, in exact arithmetic:
\* inter * den * 10^6 < num * (union * 10^6 + 1).  The difference d below is an
\* integer, so the product is formed only where it is small.
IouBelow(a, b, thr) ==
    LET d == Intersection(a, b) * thr.den - thr.num * UnionArea(a, b)
    IN  IF d <= 0 THEN TRUE
        ELSE IF d >= thr.num THEN FALSE
        ELSE d * EpsilonInverse < thr.num

\* np.argsort(areas)[::-1]: ascending by area (stable for these short arrays),
\* then reversed; the result lists indices by descending area, ties by
\* descending index.
RECURSIVE ArgsortDesc(_, _)
ArgsortDesc(dets, idxs) ==
    IF idxs = {} THEN <<>>
    ELSE LET i == CHOOSE j \in idxs :
                    \A k \in idxs :
                        \/ Area(dets[j]) > Area(dets[k])
                        \/ (Area(dets[j]) = Area(dets[k]) /\ j >= k)
         IN  <<i>> \o ArgsortDesc(dets, idxs \ {i})

\* The while loop testing only the box that follows the head
RECURSIVE SuppressNextOnly(_, _, _)
SuppressNextOnly(dets, idxs, thr) ==
    IF idxs = <<>> THEN <<>>
    ELSE LET i == Head(idxs)
             rest == Tail(idxs)
             after == IF rest # <<>> /\ ~IouBelow(dets[i], dets[Head(rest)], thr)
                      THEN Tail(rest) ELSE rest
         IN  <<i>> \o SuppressNextOnly(dets, after, thr)

\* The while loop: keep the head, drop the rest whose IoU with it is not below
\* the threshold
RECURSIVE Suppress(_, _, _)
Suppress(dets, idxs, thr) ==
    IF idxs = <<>> THEN <<>>
    ELSE LET i == Head(idxs)
             Keep(j) == IouBelow(dets[i], dets[j], thr)
         IN  <<i>> \o Suppress(dets, SelectSeq(Tail(idxs), Keep), thr)

\* The indices kept, in the order they are kept
Dedupe(dets, thr) == Suppress(dets, ArgsortDesc(dets, 1..Len(dets)), thr)

DedupIdle == detections = <<>> /\ dedupBy = "none" /\ kept = <<>> /\ rekept = <<>>

\* UIElementDetector._dedupe_boxes(boxes, iou_threshold=0.45)
DedupeBoxes ==
    /\ dedupBy = "none"
    /\ detections # <<>>
    /\ dedupBy' = "visual"
    /\ kept' = Dedupe(detections, VisualThreshold)
    /\ UNCHANGED <<detections, rekept, notDedup>>

\* DOMMapper._deduplicate_detections(detections, iou_threshold=0.3)
DeduplicateDetections ==
    /\ dedupBy = "none"
    /\ detections # <<>>
    /\ dedupBy' = "fusion"
    /\ kept' = Dedupe(detections, FusionThreshold)
    /\ UNCHANGED <<detections, rekept, notDedup>>

\* The list a suppression returns: [detections[i] for i in keep]
Survivors == [k \in 1..Len(kept) |-> detections[kept[k]]]

\* The same suppression called on the list it returned
DedupeAgain ==
    /\ dedupBy # "none" /\ rekept = <<>>
    /\ rekept' = Dedupe(Survivors,
                        IF dedupBy = "fusion" THEN FusionThreshold ELSE VisualThreshold)
    /\ UNCHANGED <<detections, dedupBy, kept, notDedup>>

-----------------------------------------------------------------------------
(* core/field_classifier.py and core/semantic_classifier.py: the cascade.     *)
(* Attribute and OCR text is a sequence of atoms: words and the separators    *)
(* "_" and " ".  The pattern tables are cut down to the patterns that can be  *)
(* written with the words of the model; a pattern with any other word can     *)
(* match no text of the model.                                                *)

\* Longest attribute text, in atoms
MaxTextLen == 2

Words == {"captcha", "CAPTCHA", "name", "first", "zip"}
Separators == {"_", " "}
Atoms == Words \cup Separators
AttrTexts == SeqsUpTo(Atoms, MaxTextLen)

LowerAtom(a) == IF a = "CAPTCHA" THEN "captcha" ELSE a
LowerText(t) == [i \in 1..Len(t) |-> LowerAtom(t[i])]

RECURSIVE StripSpaces(_)
StripSpaces(t) ==
    IF t # <<>> /\ Head(t) = " " THEN StripSpaces(Tail(t))
    ELSE IF t # <<>> /\ t[Len(t)] = " " THEN StripSpaces(SubSeq(t, 1, Len(t) - 1))
    ELSE t

\* The attribute keys classify reads, in the order it joins them
BlobKeys == <<"name", "id", "placeholder", "aria-label", "label_text", "nearby_text", "class">>

\* attrs: lower-cased keys and values, empty values dropped (.get(k, "") is "" then)
LoweredAttrs(attributes) ==
    [k \in DOMAIN attributes |->
        IF k = "type" THEN attributes[k] ELSE LowerText(attributes[k])]

RECURSIVE JoinSpace(_)
JoinSpace(parts) ==
    IF parts = <<>> THEN <<>>
    ELSE IF Len(parts) = 1 THEN parts[1]
    ELSE parts[1] \o <<" ">> \o JoinSpace(Tail(parts))

\* attr_blob_raw
AttrBlobRaw(attrs) ==
    StripSpaces(JoinSpace([i \in 1..Len(BlobKeys) |-> attrs[BlobKeys[i]]]))

RECURSIVE SkipUnderscores(_)
SkipUnderscores(t) == IF t # <<>> /\ Head(t) = "_" THEN SkipUnderscores(Tail(t)) ELSE t

\* re.sub(r"[_\-\./]+", " ", attr_blob_raw)
RECURSIVE ReplaceSeparatorRuns(_)
ReplaceSeparatorRuns(t) ==
    IF t = <<>> THEN <<>>
    ELSE IF Head(t) = "_" THEN <<" ">> \o ReplaceSeparatorRuns(SkipUnderscores(t))
    ELSE <<Head(t)>> \o ReplaceSeparatorRuns(Tail(t))

AttrBlob(attrs) == ReplaceSeparatorRuns(AttrBlobRaw(attrs))

\* combined_text = f"{attr_blob} {text_lower}".strip()
CombinedText(text, attributes) ==
    StripSpaces(AttrBlob(LoweredAttrs(attributes)) \o <<" ">> \o LowerText(text))

\* FIELD_PATTERNS in dictionary order
FieldOrder == <<"first_name", "last_name", "name", "email", "phone", "company", "subject",
                "message", "captcha", "dropdown", "choice">>

FieldPatterns(field) ==
    CASE field = "first_name" -> {<<"first", " ", "name">>, <<"first", "name">>}
      [] field = "name"       -> {<<"name">>}
      [] field = "captcha"    -> {<<"captcha">>}
      [] OTHER                -> {}

AnyPatternIn(field, t) == \E p \in FieldPatterns(field) : Contains(p, t)

NoResult == [type |-> "none", conf |-> 0]
Result(t, c) == [type |-> t, conf |-> c]

\* 2. HTML input type analysis
TypeMapping(attr_type) ==
    IF attr_type = "email" THEN Result("email", 95)
    ELSE IF attr_type \in {"tel", "phone"} THEN Result("phone", 95)
    ELSE IF attr_type \in {"submit", "button", "reset"} THEN Result("submit", 98)
    ELSE IF attr_type \in {"file", "image"} THEN Result("file", 98)
    ELSE IF attr_type = "search" THEN Result("subject", 70)
    ELSE IF attr_type \in {"checkbox", "radio"} THEN Result("choice", 95)
    ELSE NoResult

\* 3. the table scan over attr_blob: the first field, in table order, one of whose
\* patterns occurs
RECURSIVE KeywordScan(_, _)
KeywordScan(blob, i) ==
    IF i > Len(FieldOrder) THEN NoResult
    ELSE IF AnyPatternIn(FieldOrder[i], blob) THEN Result(FieldOrder[i], 90)
    ELSE KeywordScan(blob, i + 1)

FuzzyFields == {f \in {FieldOrder[i] : i \in 1..Len(FieldOrder)} : f \notin {"captcha", "choice"}}

\* What rapidfuzz reports for a text is an input: fz.field is the field of the
\* best-scoring pattern and fz.score its score.  A pattern that occurs in the
\* text has partial_ratio 100.
FuzzyConsistent(fz, combined_text) ==
    /\ (fz.score = 0) <=> (fz.field = "none")
    /\ (\E f \in FuzzyFields : AnyPatternIn(f, combined_text)) => fz.score = 100

\* the fuzzy stages never finding a match
FuzzyPassNone(fz, combined_text, attr_type, floor) == NoResult

\* 4. and 6. best_match over the table with the given floor
FuzzyPass(fz, combined_text, attr_type, floor) ==
    IF combined_text # <<>> /\ attr_type \notin {"checkbox", "radio"}
       /\ fz.score > 0 /\ fz.score >= floor
    THEN Result(fz.field, fz.score)
    ELSE NoResult

\* re.split(r"[_\-\s\.]+", attr_blob_raw.lower()): the maximal runs of words
Tokens(raw) ==
    {r \in {SubSeq(raw, i, j) : i \in 1..Len(raw), j \in 1..Len(raw)} :
        /\ r # <<>>
        /\ \A k \in 1..Len(r) : r[k] \in Words
        /\ \E i \in 1..Len(raw) :
            /\ i + Len(r) - 1 <= Len(raw)
            /\ SubSeq(raw, i, i + Len(r) - 1) = r
            /\ (i = 1 \/ raw[i - 1] \in Separators)
            /\ (i + Len(r) - 1 = Len(raw) \/ raw[i + Len(r)] \in Separators)}

\* 4b. attribute-only token fallback
TokenFallback(raw) ==
    LET tokens == Tokens(raw)
        Has(w) == <<w>> \in tokens
    IN  IF Has("name") /\ ~(Has("first") \/ Has("last") \/ Has("surname")
                            \/ Has("given") \/ Has("family"))
        THEN Result("name", 75)
        ELSE IF Has("email") \/ Has("mail") THEN Result("email", 80)
        ELSE IF Has("phone") \/ Has("tel") \/ Has("mobile") THEN Result("phone", 80)
        ELSE IF Has("company") \/ Has("organization") \/ Has("business")
             THEN Result("company", 80)
        ELSE IF Has("message") \/ Has("comment") \/ Has("inquiry") \/ Has("details")
             THEN Result("message", 75)
        ELSE NoResult

MinSimilarityPct == 45
MaxSemanticConf == 95
DefaultMinConfidence == 70
AttrFuzzyFloor == 60
FuzzyFallbackMin == 50

\* classify_semantic once the model and the embeddings are at hand: sem.pct is
\* int(best_sim * 100) of the best field type, sem.field that type
SemanticMatch(sem) ==
    IF sem.pct >= MinSimilarityPct THEN Result(sem.field, Min(MaxSemanticConf, sem.pct))
    ELSE NoResult

\* The stages before the semantic one: the result, or NoResult when none returns
BeforeSemantic(text, element_type, attributes, fz) ==
    LET attrs == LoweredAttrs(attributes)
        attr_blob_raw == AttrBlobRaw(attrs)
        attr_blob == AttrBlob(attrs)
        combined_text == CombinedText(text, attributes)
        attr_type == attrs["type"]
        effective_min == IF attr_blob_raw # <<>>
                         THEN Min(AttrFuzzyFloor, DefaultMinConfidence)
                         ELSE DefaultMinConfidence
        byType == TypeMapping(attr_type)
        byKeyword == KeywordScan(attr_blob, 1)
        byFuzzy == FuzzyPass(fz, combined_text, attr_type, effective_min)
    IN  IF element_type = "button" THEN Result("submit", 98)
        ELSE IF AnyPatternIn("captcha", combined_text) THEN Result("captcha", 100)
        ELSE IF byType # NoResult THEN byType
        ELSE IF element_type = "textarea" THEN Result("message", 95)
        ELSE IF element_type = "select" THEN Result("dropdown", 95)
        ELSE IF Contains(<<"full", " ", "name">>, attr_blob)
                \/ (Contains(<<"your", " ", "name">>, attr_blob)
                    /\ ~Contains(<<"first", " ", "name">>, attr_blob))
             THEN Result("name", 92)
        ELSE IF byKeyword # NoResult THEN byKeyword
        ELSE IF byFuzzy # NoResult THEN byFuzzy
        ELSE TokenFallback(attr_blob_raw)

\* 5. is reached: no earlier stage returned, use_minilm and a non-empty text
ReachesSemantic(text, element_type, attributes, fz, use_minilm) ==
    /\ BeforeSemantic(text, element_type, attributes, fz) = NoResult
    /\ use_minilm
    /\ CombinedText(text, attributes) # <<>>

\* The stages after the semantic one
AfterSemantic(text, element_type, attributes, fz) ==
    LET combined_text == CombinedText(text, attributes)
        attr_type == LoweredAttrs(attributes)["type"]
    IN  IF FuzzyPass(fz, combined_text, attr_type, FuzzyFallbackMin) # NoResult
        THEN FuzzyPass(fz, combined_text, attr_type, FuzzyFallbackMin)
        ELSE IF element_type = "textarea" THEN Result("message", 60)
        ELSE IF element_type = "select" THEN Result("dropdown", 70)
        ELSE Result("unknown", 0)

\* classify with the HTML type and tag mapping consulted before
\* the captcha patterns
ClassifyTypeFirst(text, element_type, attributes, fz, sem, use_minilm, usable) ==
    LET early == BeforeSemantic(text, element_type, attributes, fz)
        byType == TypeMapping(LoweredAttrs(attributes)["type"])
    IN  IF element_type # "button" /\ byType # NoResult THEN byType
        ELSE IF element_type = "textarea" THEN Result("message", 95)
        ELSE IF early # NoResult THEN early
        ELSE IF use_minilm /\ CombinedText(text, attributes) # <<>>
                /\ usable /\ SemanticMatch(sem) # NoResult
        THEN SemanticMatch(sem)
        ELSE AfterSemantic(text, element_type, attributes, fz)

\* FieldClassifier.classify; usable says whether, in this call, classify_semantic
\* gets the model, the cached embeddings and the encoding of the text
Classify(text, element_type, attributes, fz, sem, use_minilm, usable) ==
    LET early == BeforeSemantic(text, element_type, attributes, fz)
    IN  IF early # NoResult THEN early
        ELSE IF use_minilm /\ CombinedText(text, attributes) # <<>>
                /\ usable /\ SemanticMatch(sem) # NoResult
        THEN SemanticMatch(sem)
        ELSE AfterSemantic(text, element_type, attributes, fz)

\* _get_model: the module-level model after a call that finds it in state m and
\* whose load attempt, if one is made, succeeds or not
GetModel(m, loadOk) == IF m = "None" /\ loadOk THEN "loaded" ELSE m

\* _get_embeddings: the cache after a call
GetEmbeddings(cache, m, encodeOk) == IF ~cache /\ m = "loaded" /\ encodeOk THEN TRUE ELSE cache

\* Whole attribute bags: only type, name and label_text vary
EmptyAttrs == [k \in {"type", "name", "id", "placeholder", "aria-label", "label_text",
                      "nearby_text", "class"} |-> IF k = "type" THEN "" ELSE <<>>]
AttrBag(type, name) == [EmptyAttrs EXCEPT !["type"] = type, !["name"] = name]

ElementTypes == {"input", "select", "button"}
TypeAttrs == {"", "email", "checkbox"}
OcrTexts == {<<>>, <<"CAPTCHA">>, <<"zip">>}
\* values of the id attribute, which follows name in the blob
IdTexts == {<<>>, <<"first">>}
FuzzyReports == {[field |-> "none", score |-> 0], [field |-> "subject", score |-> 55],
                 [field |-> "company", score |-> 65], [field |-> "first_name", score |-> 100]}
SemanticReports == {[field |-> "email", pct |-> 40], [field |-> "phone", pct |-> 97]}

\* Calls of classify on one element
MaxCalls == 2

ClassifyIdle ==
    /\ cInput = [text |-> <<>>, tag |-> "input", attrs |-> EmptyAttrs,
                 fz |-> [field |-> "none", score |-> 0],
                 sem |-> [field |-> "email", pct |-> 40]]
    /\ cResults = <<>>

SemanticIdle == model = "None" /\ embCache = FALSE /\ loadAttempts = 0

\* One call of classify(text, element_type, attributes) with use_minilm on
ClassifyCall ==
    /\ Len(cResults) < MaxCalls
    /\ \E loadOk \in BOOLEAN, encodeOk \in BOOLEAN :
        LET reaches == ReachesSemantic(cInput.text, cInput.tag, cInput.attrs, cInput.fz, TRUE)
            m == IF reaches THEN GetModel(model, loadOk) ELSE model
            cache == IF reaches THEN GetEmbeddings(embCache, m, encodeOk) ELSE embCache
            usable == m = "loaded" /\ cache /\ encodeOk
        IN  /\ model' = m
            /\ embCache' = cache
            /\ loadAttempts' = IF reaches /\ model = "None" THEN loadAttempts + 1
                               ELSE loadAttempts
            /\ cResults' = Append(cResults,
                    Classify(cInput.text, cInput.tag, cInput.attrs, cInput.fz, cInput.sem,
                             TRUE, usable))
    /\ UNCHANGED <<cInput, notClassify>>

(***************************************************************************)
(* FormFiller.fill_field (src/core/filler.py).  One action per browser     *)
(* interaction; each interaction either succeeds or raises, chosen by the  *)
(* environment.  fTried records the interactions attempted, in order.      *)
(***************************************************************************)

InputTypes == {"", "checkbox", "tel", "date"}
DomTypes == {"input", "select", "div"}
FillValues ==
    {<<>>, <<" ">>, <<"O", "n">>, <<"a">>, <<"5", "5", "5">>,
     <<"5", "5", "5", "1", "2", "3", "4", "5", "6", "7">>,
     <<"+", "1", " ", "5", "5", "5", "-", "1", "2", "3", "-", "4", "5", "6", "7">>}
FillElements ==
    [selector : BOOLEAN, xpath : BOOLEAN, input_type : InputTypes,
     dom_type : DomTypes, editable : BOOLEAN]

\* range(2) of the generic fill loop
FillAttempts == 2

TruthyWords ==
    {<<"1">>, <<"t", "r", "u", "e">>, <<"y", "e", "s">>, <<"o", "n">>,
     <<"c", "h", "e", "c", "k", "e", "d">>}
Truthy(value) == Lower(Strip(value)) \in TruthyWords
Blank(value) == Strip(value) = <<>>
HasDigits(value) == DigitsOnly(Strip(value)) # <<>>

\* digits[-10:] and the ten digits of the phone mask
PhoneMaskDigits == 10
\* the digits a date mask needs
DateMaskDigits == 8
LastN(s, n) == SubSeq(s, Max(1, Len(s) - n + 1), Len(s))

\* f"({digits[:3]}) {digits[3:6]}-{digits[6:]}"
PhoneFormat(d) ==
    <<"(">> \o SubSeq(d, 1, 3) \o <<")", " ">> \o SubSeq(d, 4, 6) \o <<"-">> \o SubSeq(d, 7, Len(d))

\* the phone branch taking the first ten digits instead of the last ten
MaskedPhoneFirstTen(value) ==
    LET all == DigitsOnly(Strip(value))
        digits == SubSeq(all, 1, Min(Len(all), PhoneMaskDigits))
    IN  IF Len(digits) = PhoneMaskDigits THEN PhoneFormat(digits) ELSE digits

\* handle_input_mask, mask_type "phone": what is typed
MaskedPhone(value) ==
    LET digits == LastN(DigitsOnly(Strip(value)), PhoneMaskDigits)
    IN  IF Len(digits) = PhoneMaskDigits THEN PhoneFormat(digits) ELSE digits

\* handle_input_mask, mask_type "date": what is typed
MaskedDate(value) ==
    LET digits == DigitsOnly(Strip(value))
    IN  IF Len(digits) >= DateMaskDigits
        THEN SubSeq(digits, 1, 2) \o <<"/">> \o SubSeq(digits, 3, 4) \o <<"/">> \o SubSeq(digits, 5, 8)
        ELSE digits

Typed(t) == fTyped' = Append(fTyped, t)
TypedIdle == fTyped = <<>>

\* the handler of the outer try re-raises instead of returning False
OuterHandlerReraise == "raised"

\* except Exception as e: print(...); return False
OuterHandler == "False"

Return(r) == fpc' = "done" /\ fResult' = r
Goto(p) == fpc' = p /\ UNCHANGED fResult
Tried(step) == fTried' = Append(fTried, step)
Raise == Return(OuterHandler)

FillIdle ==
    /\ fElem = [selector |-> FALSE, xpath |-> FALSE, input_type |-> "",
                dom_type |-> "input", editable |-> FALSE]
    /\ fValue = <<>> /\ fpc = "done" /\ fTried = <<>>
    /\ fResult = "none" /\ fAttempt = 0

\* _resolve_locator, selector part
ResolveSelector ==
    /\ fpc = "start"
    /\ \E out \in {"found", "missing", "raise"} :
        IF fElem.selector
        THEN /\ Tried("locator_selector")
             /\ IF out = "found" THEN Goto("scroll")
                ELSE IF fElem.xpath THEN Goto("xpath") ELSE Return("False")
        ELSE /\ UNCHANGED fTried
             /\ IF fElem.xpath THEN Goto("xpath") ELSE Return("False")
    /\ UNCHANGED <<fElem, fValue, fAttempt, notFill>>

\* _resolve_locator, xpath part
ResolveXpath ==
    /\ fpc = "xpath"
    /\ \E out \in {"found", "missing", "raise"} :
        /\ Tried("locator_xpath")
        /\ IF out = "found" THEN Goto("scroll") ELSE Return("False")
    /\ UNCHANGED <<fElem, fValue, fAttempt, notFill>>

\* _scroll_into_view: scroll_into_view_if_needed
ScrollIntoView ==
    /\ fpc = "scroll"
    /\ \E ok \in BOOLEAN :
        /\ Tried("scroll")
        /\ IF ok THEN Goto("wait") ELSE Goto("scroll_js")
    /\ UNCHANGED <<fElem, fValue, fAttempt, notFill>>

\* _scroll_into_view: the JS fallback, its failure swallowed
ScrollJs ==
    /\ fpc = "scroll_js"
    /\ \E ok \in BOOLEAN : Tried("scroll_js") /\ Goto("wait")
    /\ UNCHANGED <<fElem, fValue, fAttempt, notFill>>

\* the branch taken once the element is visible
Dispatch ==
    IF fElem.input_type \in {"checkbox", "radio"} THEN Goto("toggle")
    ELSE IF fElem.dom_type = "select"
         THEN IF Blank(fValue) THEN Return("False") ELSE Goto("select_label")
    ELSE Goto("ce_probe")

\* locator.wait_for(state='visible'): not inside any inner try
WaitVisible ==
    /\ fpc = "wait"
    /\ \E ok \in BOOLEAN :
        /\ Tried("wait")
        /\ IF ok THEN Dispatch ELSE Raise
    /\ UNCHANGED <<fElem, fValue, fAttempt, notFill>>

\* checkbox / radio: check or click, not inside any inner try
Toggle ==
    /\ fpc = "toggle"
    /\ \E ok \in BOOLEAN :
        /\ Tried(IF Truthy(fValue) THEN "check" ELSE "click")
        /\ IF ok THEN Return("True") ELSE Raise
    /\ UNCHANGED <<fElem, fValue, fAttempt, notFill>>

\* _select_option: by label
SelectByLabel ==
    /\ fpc = "select_label"
    /\ \E ok \in BOOLEAN :
        /\ Tried("select_label")
        /\ IF ok THEN Return("True") ELSE Goto("select_value")
    /\ UNCHANGED <<fElem, fValue, fAttempt, notFill>>

\* _select_option: by value
SelectByValue ==
    /\ fpc = "select_value"
    /\ \E ok \in BOOLEAN :
        /\ Tried("select_value")
        /\ IF ok THEN Return("True") ELSE Goto("select_scan")
    /\ UNCHANGED <<fElem, fValue, fAttempt, notFill>>

\* _select_option: scan of the options, then select the best one
SelectScan ==
    /\ fpc = "select_scan"
    /\ \E out \in {"scan_raise", "no_option", "select_ok", "select_raise"} :
        /\ fTried' = IF out \in {"select_ok", "select_raise"}
                     THEN fTried \o <<"select_scan", "select_best">>
                     ELSE Append(fTried, "select_scan")
        /\ Return(IF out = "select_ok" THEN "True" ELSE "False")
    /\ UNCHANGED <<fElem, fValue, fAttempt, notFill>>

\* locator.evaluate(isContentEditable): not inside any inner try
ProbeContentEditable ==
    /\ fpc = "ce_probe"
    /\ \E ok \in BOOLEAN :
        /\ Tried("ce_probe")
        /\ IF ~ok THEN Raise
           ELSE IF fElem.editable THEN Goto("ce_type") ELSE Goto("clear")
    /\ UNCHANGED <<fElem, fValue, fAttempt, notFill>>

\* _fill_contenteditable: click, select all, backspace, type
CeType ==
    /\ fpc = "ce_type"
    /\ \E ok \in BOOLEAN :
        /\ Tried("ce_type")
        /\ IF ok THEN Return("True") ELSE Goto("ce_inner")
    /\ UNCHANGED <<fElem, fValue, fAttempt, notFill>>

\* _fill_contenteditable: innerHTML fallback
CeInner ==
    /\ fpc = "ce_inner"
    /\ \E ok \in BOOLEAN :
        /\ Tried("ce_inner")
        /\ Return(IF ok THEN "True" ELSE "False")
    /\ UNCHANGED <<fElem, fValue, fAttempt, notFill>>

\* the branch taken after the clearing of the field
AfterClear ==
    IF fElem.input_type \in {"tel", "phone"}
    THEN IF HasDigits(fValue) THEN Goto("mask_phone")
         ELSE IF Blank(fValue) THEN Return("False") ELSE Goto("phone_raw")
    ELSE IF fElem.input_type = "date"
    THEN IF HasDigits(fValue) THEN Goto("mask_date") ELSE Return("False")
    ELSE Goto("fill")

\* locator.clear
Clear ==
    /\ fpc = "clear"
    /\ \E ok \in BOOLEAN :
        /\ Tried("clear")
        /\ IF ok THEN AfterClear ELSE Goto("clear_fill")
    /\ UNCHANGED <<fElem, fValue, fAttempt, notFill>>

\* locator.fill(""), its failure swallowed
ClearFill ==
    /\ fpc = "clear_fill"
    /\ \E ok \in BOOLEAN : Tried("clear_fill") /\ AfterClear
    /\ UNCHANGED <<fElem, fValue, fAttempt, notFill>>

\* handle_input_mask(locator, value, "phone")
MaskPhone ==
    /\ fpc = "mask_phone"
    /\ \E ok \in BOOLEAN :
        /\ Tried("mask_phone")
        /\ IF ok THEN Typed(MaskedPhone(fValue)) ELSE UNCHANGED fTyped
        /\ IF ok THEN Return("True") ELSE Goto("phone_raw")
    /\ UNCHANGED <<fElem, fValue, fAttempt, notFillTyped>>

\* _type_phone: the raw value
PhoneRaw ==
    /\ fpc = "phone_raw"
    /\ \E ok \in BOOLEAN :
        /\ Tried("phone_raw")
        /\ IF ok THEN Typed(Strip(fValue)) ELSE UNCHANGED fTyped
        /\ IF ok THEN Return("True")
           ELSE IF HasDigits(fValue) THEN Goto("phone_digits")
           ELSE Return("False")
    /\ UNCHANGED <<fElem, fValue, fAttempt, notFillTyped>>

\* _type_phone: the digits only
PhoneDigits ==
    /\ fpc = "phone_digits"
    /\ \E ok \in BOOLEAN :
        /\ Tried("phone_digits")
        /\ IF ok THEN Typed(DigitsOnly(Strip(fValue))) ELSE UNCHANGED fTyped
        /\ Return(IF ok THEN "True" ELSE "False")
    /\ UNCHANGED <<fElem, fValue, fAttempt, notFillTyped>>

\* handle_input_mask(locator, value, "date"), no fallback
MaskDate ==
    /\ fpc = "mask_date"
    /\ \E ok \in BOOLEAN :
        /\ Tried("mask_date")
        /\ IF ok THEN Typed(MaskedDate(fValue)) ELSE UNCHANGED fTyped
        /\ Return(IF ok THEN "True" ELSE "False")
    /\ UNCHANGED <<fElem, fValue, fAttempt, notFillTyped>>

\* generic loop: locator.fill(str(value))
Fill ==
    /\ fpc = "fill"
    /\ \E ok \in BOOLEAN :
        /\ Tried("fill")
        /\ IF ok THEN Return("True") ELSE Goto("click_type")
    /\ UNCHANGED <<fElem, fValue, fAttempt, notFill>>

\* generic loop: click then type; after the last attempt, not filled
ClickType ==
    /\ fpc = "click_type"
    /\ \E ok \in BOOLEAN :
        /\ Tried("click_type")
        /\ IF ok THEN Return("True")
           ELSE IF fAttempt = 0 THEN Goto("focus")
           ELSE Return("False")
    /\ UNCHANGED <<fElem, fValue, fAttempt, notFill>>

\* generic loop: locator.focus inside the except handler of attempt 0, so a
\* failure of focus leaves the loop through the outer handler
Focus ==
    /\ fpc = "focus"
    /\ fAttempt + 1 < FillAttempts
    /\ \E ok \in BOOLEAN :
        /\ Tried("focus")
        /\ IF ok THEN Goto("fill") /\ fAttempt' = fAttempt + 1
           ELSE Raise /\ UNCHANGED fAttempt
    /\ UNCHANGED <<fElem, fValue, notFill>>

(***************************************************************************)
(* AutomatedFormFiller.process_url and process_batch (src/main.py).  A     *)
(* page is a list of DOM nodes present at load and a list of nodes that    *)
(* appear after the first fills.  fill_field and verify_fill are booleans  *)
(* chosen by the environment.                                              *)
(***************************************************************************)

\* URLs of the batch, nodes of a page at load, nodes appearing later
MaxUrls == 2
MaxNodes == 2
MaxDynamic == 2

\* A URL is its scheme prefix and its host
UrlSet == {<<"https://", "a">>, <<"", "b">>}
StartsWithHttp(url) == url[1] \in {"http://", "https://"}

NoFuzz == [field |-> "none", score |-> 0]
NoSem == [field |-> "email", pct |-> 40]
Node(tag, type, name, text, conf, rendered) ==
    [tag |-> tag, attrs |-> AttrBag(type, name), text |-> text, conf |-> conf,
     rendered |-> rendered, fz |-> NoFuzz, sem |-> NoSem]

\* email input; hidden input (never rendered); checkbox; contenteditable div
\* named first_name; input named captcha; bare input whose OCR text is read
\* with confidence
NodeKinds ==
    {Node("input", "email", <<>>, <<>>, 0, TRUE),
     Node("input", "hidden", <<"first", "_", "name">>, <<>>, 0, FALSE),
     Node("input", "checkbox", <<>>, <<>>, 0, TRUE),
     Node("div", "", <<"first", "_", "name">>, <<>>, 0, TRUE),
     Node("input", "", <<"captcha">>, <<>>, 0, TRUE),
     Node("input", "", <<>>, <<"zip">>, 50, TRUE)}
DynamicKinds ==
    {Node("input", "email", <<>>, <<>>, 0, TRUE),
     Node("div", "", <<"first", "_", "name">>, <<>>, 0, TRUE)}
\* When the fields of `later` entered the DOM: all of them while the initial
\* fields were being filled, or the last of them during the pause of
\* detect_dynamic_fields
Arrivals == {"while_filling", "in_pause"}

\* An input named "first": no keyword of the table occurs in it, and rapidfuzz
\* scores it 100 against "first name" (partial_ratio of a prefix); and a bare
\* input
HintedNode(text, conf) ==
    [Node("input", "", <<"first">>, text, conf, TRUE)
        EXCEPT !.fz = [field |-> "first_name", score |-> 100]]
HintKinds == {Node("input", "", <<>>, <<"zip">>, 50, TRUE), HintedNode(<<"zip">>, 50)}
HintDynamicKinds == {Node("input", "", <<>>, <<>>, 0, TRUE), HintedNode(<<>>, 0)}

PageSet(kinds, dynamic) ==
    {p \in [nodes : SeqsUpTo(kinds, MaxNodes), later : SeqsUpTo(dynamic, MaxDynamic),
            widget : BOOLEAN, arrival : Arrivals \cup {"never"}] :
        (p.later = <<>>) <=> (p.arrival = "never")}
Pages == PageSet(NodeKinds, DynamicKinds)
HintPages == PageSet(HintKinds, HintDynamicKinds)
HintUrl == <<"https://", "c">>
\* A site that shows its captcha field at once or only after the first fill
CaptchaKinds ==
    {Node("input", "email", <<>>, <<>>, 0, TRUE), Node("input", "", <<"captcha">>, <<>>, 0, TRUE)}
CaptchaPages == PageSet(CaptchaKinds, CaptchaKinds)
CaptchaUrl == <<"https://", "d">>
PagesAt(url) ==
    IF url = HintUrl THEN HintPages ELSE IF url = CaptchaUrl THEN CaptchaPages ELSE Pages
NoPage == [nodes |-> <<>>, later |-> <<>>, widget |-> FALSE, arrival |-> "never"]

\* self.prefill_data: a value is a sequence of words, the empty string <<>>;
\* None is the absent value
None == <<"<None>">>
PrefillData == [email |-> <<"a@b.c">>, first_name |-> <<"Ann">>]
Get(key) == IF key \in DOMAIN PrefillData THEN PrefillData[key] ELSE None
\* re.sub(r"[^a-z0-9]+", "", key.lower()) on the keys in use
NormKey(key) ==
    CASE key = "first_name" -> "firstname"
      [] key = "last_name" -> "lastname"
      [] key = "full_name" -> "fullname"
      [] key = "company_name" -> "companyname"
      [] key = "where_did_you_hear_about_us" -> "wheredidyouhearaboutus"
      [] OTHER -> key
\* prefill_norm.get(key)
GetNorm(key) ==
    LET ks == {k \in DOMAIN PrefillData : NormKey(k) = key /\ PrefillData[k] # None}
    IN  IF ks = {} THEN None ELSE PrefillData[CHOOSE k \in ks : TRUE]
\* a or b
OrElse(a, b) == IF a \notin {None, <<>>} THEN a ELSE b
\* (a or "").strip()
StrOrEmpty(a) == IF a = None THEN <<>> ELSE a
ContainsAny(toks, t) == \E w \in toks : Contains(<<w>>, t)

\* AutomatedFormFiller._resolve_prefill_value
ResolvePrefillValue(field_type, attributes) ==
    LET attrs == LoweredAttrs(attributes)
        hints == JoinSpace(<<attrs["name"], attrs["id"], attrs["placeholder"],
                             attrs["aria-label"]>>)
        labels == JoinSpace(<<attrs["name"], attrs["id"], attrs["placeholder"],
                              attrs["aria-label"], attrs["label_text"],
                              attrs["nearby_text"]>>)
        full_name == StrOrEmpty(Get("full_name"))
        first_name == StrOrEmpty(Get("first_name"))
        last_name == StrOrEmpty(Get("last_name"))
        first_of_full == IF full_name = <<>> THEN <<>> ELSE <<full_name[1]>>
        last_of_full == IF full_name = <<>> THEN <<>> ELSE <<full_name[Len(full_name)]>>
    IN  IF field_type \in DOMAIN PrefillData THEN PrefillData[field_type]
        ELSE IF field_type = "subject"
             THEN OrElse(Get("subject"), OrElse(Get("topic"), OrElse(Get("title"),
                    OrElse(GetNorm("subject"), GetNorm("topic")))))
        ELSE IF field_type = "message"
             THEN OrElse(Get("message"), OrElse(Get("comment"), OrElse(Get("comments"),
                    GetNorm("message"))))
        ELSE IF field_type \in {"company", "company_name"}
             THEN OrElse(Get("company"), OrElse(Get("company_name"),
                    OrElse(GetNorm("company"), GetNorm("companyname"))))
        ELSE IF field_type = "dropdown"
             THEN IF ContainsAny({"country", "nation"}, labels)
                  THEN OrElse(Get("country"), OrElse(Get("Country"), GetNorm("country")))
                  ELSE IF ContainsAny({"hear", "source", "referral"}, labels)
                  THEN OrElse(Get("where_did_you_hear_about_us"),
                         OrElse(Get("Where did you hear about us"),
                                GetNorm("wheredidyouhearaboutus")))
                  ELSE None
        ELSE IF field_type = "name"
             THEN IF full_name # <<>> THEN full_name
                  ELSE IF first_name # <<>> \/ last_name # <<>> THEN first_name \o last_name
                  ELSE None
        ELSE IF field_type = "first_name"
             THEN IF first_name # <<>> THEN first_name
                  ELSE IF full_name # <<>> THEN first_of_full
                  ELSE None
        ELSE IF field_type = "last_name"
             THEN IF last_name # <<>> THEN last_name
                  ELSE IF Len(full_name) > 1 THEN last_of_full
                  ELSE None
        ELSE IF Contains(<<"first">>, hints) /\ (first_name # <<>> \/ full_name # <<>>)
             THEN OrElse(first_name, first_of_full)
        ELSE IF ContainsAny({"last", "surname"}, hints)
                /\ (last_name # <<>> \/ full_name # <<>>)
             THEN OrElse(last_name, last_of_full)
        ELSE None

\* should_skip_field without the test of the tag
ShouldSkipFieldAnyTag(field_type, element_info) ==
    LET attr_type == LowerAtom(element_info.attrs["type"])
    IN  \/ field_type \in {"captcha", "button", "submit", "file"}
        \/ field_type = "choice" \/ attr_type \in {"checkbox", "radio"}
        \/ element_info.failed_attempts >= 2
        \/ element_info.attrs["type"] = "hidden"

\* FieldClassifier.should_skip_field
ShouldSkipField(field_type, element_info) ==
    LET attr_type == LowerAtom(element_info.attrs["type"])
        dom_type == LowerAtom(element_info.tag)
    IN  \/ field_type \in {"captcha", "button", "submit", "file"}
        \/ field_type = "choice" \/ attr_type \in {"checkbox", "radio"}
        \/ dom_type \notin {"input", "textarea", "select"}
        \/ element_info.failed_attempts >= 2
        \/ element_info.attrs["type"] = "hidden"

\* The thresholds of the low-confidence skip
MinFieldConfidence == 40
MinOcrConfidence == 20

\* DOMMapper.find_form_elements on the nodes numbered from first: only a node
\* with a bounding box is harvested; its xpath is its position in the document
RECURSIVE FindFormElements(_, _)
FindFormElements(nodes, first) ==
    IF nodes = <<>> THEN <<>>
    ELSE LET n == Head(nodes)
             rest == FindFormElements(Tail(nodes), first + 1)
         IN  IF n.rendered
             THEN <<[xpath |-> first, tag |-> n.tag, attrs |-> n.attrs, text |-> n.text,
                     conf |-> n.conf, fz |-> n.fz, sem |-> n.sem, failed_attempts |-> 0,
                     classified_as |-> "", resolved_value |-> None,
                     status |-> "detected"]>> \o rest
             ELSE rest

\* _element_identity, with one frame
ElementIdentity(e) == <<e.xpath, e.tag>>

\* The result record of process_url at its creation; status stands for the
\* key "Submission status", which the record does not hold at first
Unset == "<unset>"
NewResult(url) ==
    [url |-> url, status |-> Unset, reason |-> "unknown error",
     fields_filled |-> 0, total_fields |-> 0, captcha_detected |-> FALSE,
     elements_seen |-> 0, elements_ready_to_fill |-> 0, fill_attempts |-> 0,
     fill_action_failed |-> 0, fill_verify_failed |-> 0, low_confidence_skips |-> 0,
     non_fillable_skips |-> 0, prefill_miss_skips |-> 0]

\* The row save_results exports for a result
Exported(r) ==
    [url |-> r.url,
     submission |-> IF r.status # Unset THEN r.status ELSE "unsuccessful",
     reason |-> r.reason]

\* the outcomes of loading the model and of encoding that matter to a call of
\* classify on e: none when the semantic stage is not reached
Availability(e) ==
    IF ReachesSemantic(e.text, e.tag, e.attrs, e.fz, TRUE) THEN BOOLEAN ELSE {TRUE}

\* classify as process_url calls it, and the model state it leaves
ClassifyElement(e, loadOk, encodeOk) ==
    LET reaches == ReachesSemantic(e.text, e.tag, e.attrs, e.fz, TRUE)
        m == IF reaches THEN GetModel(model, loadOk) ELSE model
        cache == IF reaches THEN GetEmbeddings(embCache, m, encodeOk) ELSE embCache
        usable == m = "loaded" /\ cache /\ encodeOk
    IN  [model |-> m, cache |-> cache,
         result |-> Classify(e.text, e.tag, e.attrs, e.fz, e.sem, TRUE, usable)]

\* an exception inside the try of process_url: the except clause records the
\* error and control goes to the finally clause
Throw ==
    /\ result' = [result EXCEPT !.reason = "error"]
    /\ pc' = "finally"

PageIdle ==
    /\ urls = <<>> /\ cursor = 1 /\ batch = "complete" /\ pc = "idle"
    /\ page = NoPage /\ pageOpen = FALSE /\ elements = <<>> /\ dynElements = <<>>
    /\ fillable = <<>> /\ idx = 1 /\ filledCount = 0
    /\ result = NewResult(<<"", "">>) /\ results = <<>>
    /\ fillCalls = {} /\ failures = [x \in {} |-> 0]

\* process_batch: a URL without http:// or https:// is skipped
SkipInvalidUrl ==
    /\ batch = "running" /\ pc = "idle" /\ cursor <= Len(urls)
    /\ ~StartsWithHttp(urls[cursor])
    /\ cursor' = cursor + 1
    /\ UNCHANGED <<urls, batch, pc, page, pageOpen, elements, dynElements, fillable, idx,
                   filledCount, result, results, fillCalls, failures, notPage>>

\* process_batch calls process_url: the result record is created
StartUrl ==
    /\ batch = "running" /\ pc = "idle" /\ cursor <= Len(urls)
    /\ StartsWithHttp(urls[cursor])
    /\ result' = NewResult(urls[cursor])
    /\ pc' = "open"
    /\ page' = NoPage /\ pageOpen' = FALSE
    /\ elements' = <<>> /\ dynElements' = <<>> /\ fillable' = <<>>
    /\ idx' = 1 /\ filledCount' = 0
    /\ fillCalls' = {} /\ failures' = [x \in {} |-> 0]
    /\ UNCHANGED <<urls, cursor, batch, results, notPage>>

\* steps 1 to 5: open the page, early captcha check, screenshot, detection and
\* mapping to DOM elements; any of them may raise
OpenPage ==
    /\ pc = "open"
    /\ \E p \in PagesAt(urls[cursor]), opened \in BOOLEAN, mapped \in BOOLEAN :
        IF ~opened
        THEN /\ Throw
             /\ UNCHANGED <<page, pageOpen, elements, failures>>
        ELSE /\ page' = p /\ pageOpen' = TRUE
             /\ IF ~mapped
                THEN /\ Throw
                     /\ UNCHANGED <<elements, failures>>
                ELSE /\ elements' = FindFormElements(p.nodes, 1)
                     /\ failures' = [x \in 1..(Len(p.nodes) + Len(p.later)) |-> 0]
                     /\ result' = [result EXCEPT !.captcha_detected = p.widget]
                     /\ pc' = "classify"
    /\ UNCHANGED <<urls, cursor, batch, dynElements, fillable, idx, filledCount, results,
                   fillCalls, notPage>>

\* one iteration of the classification loop (lines 157-246)
ClassifyNext ==
    /\ pc = "classify" /\ idx <= Len(elements)
    /\ \E read \in BOOLEAN :
       \E loadOk \in Availability(elements[idx]), encodeOk \in Availability(elements[idx]) :
        LET e0 == elements[idx]
            e == IF read THEN e0 ELSE [e0 EXCEPT !.text = <<>>, !.conf = 0]
            c == ClassifyElement(e, loadOk, encodeOk)
            field_type == c.result.type
            value == ResolvePrefillValue(field_type, e.attrs)
            entry == [e0 EXCEPT !.classified_as = field_type]
        IN  /\ model' = c.model /\ embCache' = c.cache
            /\ IF c.result.conf < MinFieldConfidence /\ e.conf < MinOcrConfidence
               THEN /\ elements' = [elements EXCEPT ![idx] =
                                        [entry EXCEPT !.status = "low confidence"]]
                    /\ result' = [result EXCEPT !.low_confidence_skips = @ + 1]
                    /\ UNCHANGED fillable
               ELSE IF field_type = "captcha"
               THEN /\ elements' = [elements EXCEPT ![idx] =
                                        [entry EXCEPT !.status = "captcha field"]]
                    /\ result' = [result EXCEPT !.captcha_detected = TRUE]
                    /\ UNCHANGED fillable
               ELSE IF ShouldSkipField(field_type, e0)
               THEN /\ elements' = [elements EXCEPT ![idx] =
                                        [entry EXCEPT !.status = "non-fillable"]]
                    /\ result' = [result EXCEPT !.non_fillable_skips = @ + 1]
                    /\ UNCHANGED fillable
               ELSE IF value # None
               THEN /\ elements' = [elements EXCEPT ![idx] =
                                        [entry EXCEPT !.status = "ready_to_fill",
                                                      !.resolved_value = value]]
                    /\ fillable' = Append(fillable, idx)
                    /\ UNCHANGED result
               ELSE /\ elements' = [elements EXCEPT ![idx] =
                                        [entry EXCEPT !.status = "no prefill data"]]
                    /\ result' = [result EXCEPT !.prefill_miss_skips = @ + 1]
                    /\ UNCHANGED fillable
    /\ idx' = idx + 1
    /\ UNCHANGED <<urls, cursor, batch, pc, page, pageOpen, dynElements, filledCount, results,
                   fillCalls, failures, loadAttempts, pageOthers>>

\* lines 248-258: the loop is over, the metrics are updated
FinishClassify ==
    /\ pc = "classify" /\ idx > Len(elements)
    /\ result' = [result EXCEPT !.total_fields = Len(fillable),
                                !.elements_seen = Len(elements),
                                !.elements_ready_to_fill = Len(fillable)]
    /\ pc' = "fill" /\ idx' = 1
    /\ UNCHANGED <<urls, cursor, batch, page, pageOpen, elements, dynElements, fillable,
                   filledCount, results, fillCalls, failures, notPage>>

\* one iteration of the fill loop (lines 262-290)
FillNext ==
    /\ pc = "fill" /\ idx <= Len(fillable)
    /\ \E filled \in BOOLEAN, verified \in BOOLEAN :
        LET i == fillable[idx]
            e == elements[i]
        IN  /\ fillCalls' = fillCalls \cup
                    {[pass |-> "initial", field_type |-> e.classified_as, element |-> e]}
            /\ IF filled /\ verified
               THEN /\ filledCount' = filledCount + 1
                    /\ elements' = [elements EXCEPT ![i].status = "filled"]
                    /\ result' = [result EXCEPT !.fill_attempts = @ + 1]
                    /\ UNCHANGED failures
               ELSE /\ elements' = [elements EXCEPT ![i].status = "fill_failed",
                                                    ![i].failed_attempts = @ + 1]
                    /\ result' = IF filled
                                 THEN [result EXCEPT !.fill_attempts = @ + 1,
                                                     !.fill_verify_failed = @ + 1]
                                 ELSE [result EXCEPT !.fill_attempts = @ + 1,
                                                     !.fill_action_failed = @ + 1]
                    /\ failures' = [failures EXCEPT ![e.xpath] = @ + 1]
                    /\ UNCHANGED filledCount
    /\ idx' = idx + 1
    /\ UNCHANGED <<urls, cursor, batch, pc, page, pageOpen, dynElements, fillable, results,
                   notPage>>

\* current_count > initial_count: both counts are taken inside
\* detect_dynamic_fields, before and after its pause
CountGrew(p) == p.arrival = "in_pause"

\* detect_dynamic_fields (lines 292-297, 569-602): when the count of DOM fields
\* grew during the pause, the page is mapped again and the elements whose
\* identity was not seen before are returned
DetectDynamicFields ==
    /\ pc = "fill" /\ idx > Len(fillable)
    /\ \E mapped \in BOOLEAN :
        IF ~mapped
        THEN Throw /\ UNCHANGED <<dynElements, idx>>
        ELSE LET seen_keys == {ElementIdentity(elements[i]) : i \in 1..Len(elements)}
                 discovered == FindFormElements(page.nodes \o page.later, 1)
             IN  /\ dynElements' =
                        IF CountGrew(page)
                        THEN SelectSeq(discovered, LAMBDA e : ElementIdentity(e) \notin seen_keys)
                        ELSE <<>>
                 /\ pc' = "dynamic" /\ idx' = 1
                 /\ UNCHANGED result
    /\ UNCHANGED <<urls, cursor, batch, page, pageOpen, elements, fillable, filledCount,
                   results, fillCalls, failures, notPage>>

\* one iteration of the dynamic-field loop (lines 301-354)
DynamicNext ==
    /\ pc = "dynamic" /\ idx <= Len(dynElements)
    /\ \E read \in BOOLEAN, filled \in BOOLEAN, verified \in BOOLEAN :
       \E loadOk \in Availability(dynElements[idx]),
          encodeOk \in Availability(dynElements[idx]) :
        LET e0 == dynElements[idx]
            e == IF read THEN e0 ELSE [e0 EXCEPT !.text = <<>>, !.conf = 0]
            c == ClassifyElement(e, loadOk, encodeOk)
            field_type == c.result.type
            value == ResolvePrefillValue(field_type, e.attrs)
            entry == [e0 EXCEPT !.classified_as = field_type]
        IN  /\ model' = c.model /\ embCache' = c.cache
            /\ IF ShouldSkipField(field_type, e0)
               THEN /\ dynElements' = [dynElements EXCEPT ![idx] =
                                        [entry EXCEPT !.status = "non-fillable"]]
                    /\ result' = [result EXCEPT !.non_fillable_skips = @ + 1]
                    /\ UNCHANGED <<filledCount, fillCalls, failures>>
               ELSE IF value = None
               THEN /\ dynElements' = [dynElements EXCEPT ![idx] =
                                        [entry EXCEPT !.status = "no prefill data"]]
                    /\ result' = [result EXCEPT !.prefill_miss_skips = @ + 1]
                    /\ UNCHANGED <<filledCount, fillCalls, failures>>
               ELSE /\ fillCalls' = fillCalls \cup
                            {[pass |-> "dynamic", field_type |-> field_type, element |-> e0]}
                    /\ IF filled /\ verified
                       THEN /\ filledCount' = filledCount + 1
                            /\ dynElements' = [dynElements EXCEPT ![idx] =
                                                [entry EXCEPT !.status = "filled"]]
                            /\ result' = [result EXCEPT !.fill_attempts = @ + 1]
                            /\ UNCHANGED failures
                       ELSE /\ dynElements' = [dynElements EXCEPT ![idx] =
                                                [entry EXCEPT !.status = "fill_failed"]]
                            /\ result' = [result EXCEPT !.fill_attempts = @ + 1,
                                                        !.fill_action_failed = @ + 1]
                            /\ failures' = [failures EXCEPT ![e0.xpath] = @ + 1]
                            /\ UNCHANGED filledCount
    /\ idx' = idx + 1
    /\ UNCHANGED <<urls, cursor, batch, pc, page, pageOpen, elements, fillable, results,
                   loadAttempts, pageOthers>>

\* The texts the page shows after the click, as matched pattern labels
PageTexts == {[s |-> {}, f |-> {}], [s |-> {"thank_you"}, f |-> {}],
              [s |-> {}, f |-> {"captcha"}], [s |-> {}, f |-> {"field_error"}]}

\* lines 392-412: the outcome of a clicked submission
SubmissionOutcome(dom_success, ocr_signal) ==
    IF dom_success \/ ocr_signal.success
    THEN [status |-> "success", reason |-> "form submitted successfully"]
    ELSE IF ocr_signal.failure
    THEN [status |-> Unset,
          reason |-> IF "captcha" \in ocr_signal.failure_matches
                     THEN "captcha verification blocked submission"
                     ELSE "form submission failed validation checks"]
    ELSE [status |-> "uncertain", reason |-> "submission attempted; no clear signal"]

\* lines 356-424: record the count, and submit when at least one field is filled
Submit ==
    /\ pc = "dynamic" /\ idx > Len(dynElements)
    /\ \E shot \in BOOLEAN, clicked \in BOOLEAN, dom_success \in BOOLEAN, t \in PageTexts :
        \* without a filled field nothing is clicked, without a click nothing is read
        /\ filledCount = 0 => ~clicked
        /\ ~clicked => ~dom_success /\ t = [s |-> {}, f |-> {}]
        /\ LET counted == [result EXCEPT !.fields_filled = filledCount]
               o == SubmissionOutcome(dom_success, PostSubmitOcrSignal(TRUE, t.s, t.f))
           IN  result' =
                IF ~shot THEN [counted EXCEPT !.reason = "error"]
                ELSE IF filledCount = 0
                THEN [counted EXCEPT !.reason =
                        IF result.captcha_detected
                        THEN "captcha obstructed interaction or no fillable fields found"
                        ELSE "no fillable fields found"]
                ELSE IF ~clicked
                THEN [counted EXCEPT !.reason =
                        IF result.captcha_detected
                        THEN "captcha likely obstructed submit button"
                        ELSE "could not find submit button"]
                ELSE [counted EXCEPT !.status = o.status, !.reason = o.reason]
    /\ pc' = "finally"
    /\ UNCHANGED <<urls, cursor, batch, page, pageOpen, elements, dynElements, fillable, idx,
                   filledCount, results, fillCalls, failures, notPage>>

\* line 445: result["Submission status"] is read; the key is absent unless the
\* submission was judged success or uncertain, and the read raises KeyError
\* the steps of the try body of process_url
BodySteps == {"open", "classify", "fill", "dynamic"}

\* KeyboardInterrupt inside the try body: it is not an Exception, so the except
\* clause is passed over and the finally clause runs with the interrupt pending
Interrupt ==
    /\ batch = "running" /\ pc \in BodySteps
    /\ pc' = "interrupted"
    /\ UNCHANGED <<urls, cursor, batch, page, pageOpen, elements, dynElements, fillable, idx,
                   filledCount, result, results, fillCalls, failures, notPage>>

\* the finally clause without page.close()
CloseSkipped(open) == open

\* if page: page.close(), a failure of the close only logged
ClosePage(open) == FALSE

LogResult(r) == IF r.status = Unset THEN "raised" ELSE "returned"

\* the finally clause (lines 430-451) and the return: the page is closed, the
\* result appended to self.results and saved, then logged
Finally ==
    /\ pc \in {"finally", "interrupted"}
    /\ pageOpen' = ClosePage(pageOpen)
    /\ results' = Append(results, Exported(result))
    /\ pc' = IF pc = "interrupted" THEN "raised" ELSE LogResult(result)
    /\ UNCHANGED <<urls, cursor, batch, page, elements, dynElements, fillable, idx,
                   filledCount, result, fillCalls, failures, notPage>>

\* process_batch, lines 947-952: process_url returned, on to the next URL
NextUrl ==
    /\ batch = "running" /\ pc = "returned"
    /\ cursor' = cursor + 1 /\ pc' = "idle"
    /\ UNCHANGED <<urls, batch, page, pageOpen, elements, dynElements, fillable, idx,
                   filledCount, result, results, fillCalls, failures, notPage>>

\* process_batch, line 947: no handler around process_url, the exception leaves
\* the loop and the function
BatchHalt ==
    /\ batch = "running" /\ pc = "raised"
    /\ batch' = "halted"
    /\ UNCHANGED <<urls, cursor, pc, page, pageOpen, elements, dynElements, fillable, idx,
                   filledCount, result, results, fillCalls, failures, notPage>>

\* process_batch, lines 954-955: every URL was visited
BatchComplete ==
    /\ batch = "running" /\ pc = "idle" /\ cursor > Len(urls)
    /\ batch' = "complete"
    /\ UNCHANGED <<urls, cursor, pc, page, pageOpen, elements, dynElements, fillable, idx,
                   filledCount, result, results, fillCalls, failures, notPage>>

-----------------------------------------------------------------------------
(* core/dom_mapper.py: screenshot pixels <-> viewport CSS pixels *)

\* The largest screenshot coordinate tried
MaxPixel == 101

\* A float of the code is a rational num/den with den > 0; the rounding of the
\* float operations is a separate error of less than one unit whose sign is
\* not known (Drift)
Rat(n, d) == [num |-> n, den |-> d]
Drift == {-1, 0, 1}

\* window.devicePixelRatio, window.scrollX / scrollY and the crop origin
PixelRatios == {Rat(1, 1), Rat(2, 1), Rat(3, 2), Rat(11, 10)}
Scrolls == {Rat(0, 1), Rat(250, 1), Rat(501, 2)}
Origins == {0, 16}
Metrics == [dpr : PixelRatios, scroll_x : Scrolls, scroll_y : {Rat(0, 1), Rat(250, 1)},
            origin_x : Origins, origin_y : Origins]
ScreenBoxes == [x : {0, 7, MaxPixel}, y : {0, 18}, w : {40, 45}, h : {18}]
NoBox == [x |-> -1, y |-> -1, w |-> -1, h |-> -1]
NoMetrics == [dpr |-> Rat(1, 1), scroll_x |-> Rat(0, 1), scroll_y |-> Rat(0, 1),
              origin_x |-> 0, origin_y |-> 0]

\* abs_x = x + origin_x; page_css_x = abs_x / dpr; viewport_x = page_css_x - scroll_x
ScreenshotToViewport(x, origin, dpr, scroll) ==
    Rat((x + origin) * dpr.den * scroll.den - scroll.num * dpr.num, dpr.num * scroll.den)

\* w / dpr
CssLength(w, dpr) == Rat(w * dpr.den, dpr.num)

\* Python's int() of a float: truncation toward zero. A float that should be a
\* whole number may sit just below or just above it
IntOf(r, drift) ==
    LET n == IF r.num >= 0 THEN r.num ELSE -r.num
        q == n \div r.den
        whole == (n % r.den = 0)
        away == IF r.num >= 0 THEN drift < 0 ELSE drift > 0
        t == IF whole /\ away /\ q > 0 THEN q - 1 ELSE q
    IN  IF r.num >= 0 THEN t ELSE -t

\* The back conversion with the crop origin left out
ViewportToScreenshotNoOrigin(v, origin, dpr, scroll, drift) ==
    IntOf(Rat((v.num * scroll.den + scroll.num * v.den) * dpr.num,
              v.den * scroll.den * dpr.den), drift)

\* sx_abs = int((vx + scroll_x) * dpr); sx = sx_abs - origin_x
ViewportToScreenshot(v, origin, dpr, scroll, drift) ==
    IntOf(Rat((v.num * scroll.den + scroll.num * v.den) * dpr.num,
              v.den * scroll.den * dpr.den), drift) - origin

\* sw = int(vw * dpr)
PixelLength(vw, dpr, drift) == IntOf(Rat(vw.num * dpr.num, vw.den * dpr.den), drift)

CoordIdle == cBox = NoBox /\ cMetrics = NoMetrics /\ cView = <<>> /\ cBack = <<>>

\* get_element_with_transforms, lines 26-38: the box in viewport space
ToViewport ==
    /\ cView = <<>>
    /\ cView' = <<[x |-> ScreenshotToViewport(cBox.x, cMetrics.origin_x, cMetrics.dpr, cMetrics.scroll_x),
                   y |-> ScreenshotToViewport(cBox.y, cMetrics.origin_y, cMetrics.dpr, cMetrics.scroll_y),
                   w |-> CssLength(cBox.w, cMetrics.dpr),
                   h |-> CssLength(cBox.h, cMetrics.dpr)]>>
    /\ UNCHANGED <<cBox, cMetrics, cBack, notCoord>>

\* _collect_dom_items, lines 249-254: a bounding box back in screenshot pixels
ToScreenshot ==
    /\ cView # <<>> /\ cBack = <<>>
    /\ \E dx, dy, dw, dh \in Drift :
         cBack' = <<[x |-> ViewportToScreenshot(cView[1].x, cMetrics.origin_x, cMetrics.dpr, cMetrics.scroll_x, dx),
                     y |-> ViewportToScreenshot(cView[1].y, cMetrics.origin_y, cMetrics.dpr, cMetrics.scroll_y, dy),
                     w |-> PixelLength(cView[1].w, cMetrics.dpr, dw),
                     h |-> PixelLength(cView[1].h, cMetrics.dpr, dh)]>>
    /\ UNCHANGED <<cBox, cMetrics, cView, notCoord>>

-----------------------------------------------------------------------------
(* core/dom_mapper.py, core/filler.py, core/verifier.py: selectors, XPaths
   and their later lookup *)

\* The most iframes of a page, and the most field-like nodes of its main frame
MaxIframes == 2
MaxFrameNodes == 2

\* A field-like node of a frame: its tag and its id and name attributes ("" is
\* absent).  The nodes of a frame are siblings, in document order.
DomNode(tag, id, name) == [tag |-> tag, id |-> id, name |-> name]
DomNodes ==
    {DomNode("input", "", ""), DomNode("input", "", "n"), DomNode("input", "a", ""),
     DomNode("select", "", "")}

\* page.frames: the main frame first, then the iframes
MainUrl == "https://a"
IframeUrls == {"https://w", "https://x"}
FrameNames == {"", "pay"}
MainFrames == [fid : {0}, url : {MainUrl}, name : {""}, nodes : SeqsUpTo(DomNodes, MaxFrameNodes)]
Iframes == [url : IframeUrls, name : FrameNames, nodes : [1..1 -> DomNodes]]
WithFid(fr, k) == [fid |-> k, url |-> fr.url, name |-> fr.name, nodes |-> fr.nodes]
PageFrames ==
    {<<m>> \o [k \in 1..Len(fs) |-> WithFid(fs[k], k)] :
        m \in MainFrames, fs \in SeqsUpTo(Iframes, MaxIframes)}

\* selector: #id, else tag[name="..."], else the bare tag
BuildSelector(n) ==
    IF n.id # "" THEN [kind |-> "id", tag |-> "", val |-> n.id]
    ELSE IF n.name # "" THEN [kind |-> "name", tag |-> n.tag, val |-> n.name]
    ELSE [kind |-> "tag", tag |-> n.tag, val |-> ""]

\* the number of earlier siblings with the same tag
SameTagBefore(nodes, k) == Cardinality({j \in 1..(k - 1) : nodes[j].tag = nodes[k].tag})

\* getXPath: //*[@id="..."], else the path of tags with sibling indexes
GetXPath(nodes, k) ==
    IF nodes[k].id # "" THEN [kind |-> "id", tag |-> "", val |-> nodes[k].id, index |-> 0]
    ELSE [kind |-> "path", tag |-> nodes[k].tag, val |-> "", index |-> SameTagBefore(nodes, k) + 1]

\* One harvested item; `at` is the node it was made from
Item(fr, k) ==
    [selector |-> BuildSelector(fr.nodes[k]), xpath |-> GetXPath(fr.nodes, k),
     frame_url |-> fr.url, frame_name |-> fr.name,
     at |-> [frame |-> fr.fid, node |-> k]]
\* xpath None of a shadow-root item, and the "" that `xpath or ""` makes of it
NoXPath == [kind |-> "none", tag |-> "", val |-> "", index |-> 0]
EmptyXPath == [kind |-> "empty", tag |-> "", val |-> "", index |-> 0]
XPathOrEmpty(xp) == IF xp = NoXPath THEN EmptyXPath ELSE xp

ItemKey(it) == <<it.frame_url, it.frame_name, it.selector, XPathOrEmpty(it.xpath)>>

\* _collect_dom_items: every node of every frame, in order, without the items
\* whose (frame_url, frame_name, selector, xpath) was already seen
CollectDomItems(frames) ==
    LET Places == {<<f, k>> : f \in 1..Len(frames), k \in 1..MaxFrameNodes}
        Valid == {p \in Places : p[2] <= Len(frames[p[1]].nodes)}
        Before(p, q) == p[1] < q[1] \/ (p[1] = q[1] /\ p[2] < q[2])
        At(p) == Item(frames[p[1]], p[2])
    IN  {At(p) : p \in {q \in Valid :
                         ~\E r \in Valid : Before(r, q) /\ ItemKey(At(r)) = ItemKey(At(q))}}

\* .first: the first of the matching positions, 0 when there is none
FirstOf(hits) == IF hits = {} THEN 0 ELSE CHOOSE k \in hits : \A j \in hits : k <= j

\* a node matches a selector
MatchesSelector(n, sel) ==
    CASE sel.kind = "id" -> n.id = sel.val
      [] sel.kind = "name" -> n.tag = sel.tag /\ n.name = sel.val
      [] OTHER -> n.tag = sel.tag

\* context.locator(selector).first
LocateSelector(nodes, sel) ==
    FirstOf({k \in 1..Len(nodes) : MatchesSelector(nodes[k], sel)})

\* context.locator("xpath=" + xpath).first
LocateXpath(nodes, xp) ==
    IF xp.kind = "id"
    THEN FirstOf({k \in 1..Len(nodes) : nodes[k].id = xp.val})
    ELSE FirstOf({k \in 1..Len(nodes) :
                    nodes[k].tag = xp.tag /\ SameTagBefore(nodes, k) + 1 = xp.index})

\* context = self.page, replaced by the first frame whose url is the recorded
\* url or whose name is the recorded name
ResolveContext(frames, it) ==
    LET hits == {f \in 1..Len(frames) :
                    \/ it.frame_url # "" /\ frames[f].url = it.frame_url
                    \/ it.frame_name # "" /\ frames[f].name = it.frame_name}
    IN  IF hits = {} THEN frames[1]
        ELSE frames[CHOOSE f \in hits : \A g \in hits : f <= g]

NotFound == [frame |-> -1, node |-> 0, by |-> "none"]

\* _resolve_locator: the selector first, then the XPath, then None
ResolveLocator(frames, it) ==
    LET context == ResolveContext(frames, it)
        s == LocateSelector(context.nodes, it.selector)
        x == LocateXpath(context.nodes, it.xpath)
    IN  IF s > 0 THEN [frame |-> context.fid, node |-> s, by |-> "selector"]
        ELSE IF x > 0 THEN [frame |-> context.fid, node |-> x, by |-> "xpath"]
        ELSE NotFound

NoItem == [selector |-> [kind |-> "tag", tag |-> "", val |-> ""],
           xpath |-> [kind |-> "path", tag |-> "", val |-> "", index |-> 0],
           frame_url |-> "", frame_name |-> "", at |-> [frame |-> -1, node |-> 0]]
LocateIdle ==
    /\ lFrames = <<>> /\ lItems = {} /\ lpc = "idle" /\ lTarget = NoItem /\ lFound = NotFound

\* find_form_elements harvests the page
Harvest ==
    /\ lpc = "loaded"
    /\ lItems' = CollectDomItems(lFrames)
    /\ lpc' = "harvested"
    /\ UNCHANGED <<lFrames, lTarget, lFound, notLocate>>

\* Between harvest and lookup the page drops one of its iframes
FrameDetached ==
    /\ lpc = "harvested"
    /\ \E f \in 2..Len(lFrames) :
         lFrames' = SubSeq(lFrames, 1, f - 1) \o SubSeq(lFrames, f + 1, Len(lFrames))
    /\ lpc' = "changed"
    /\ UNCHANGED <<lItems, lTarget, lFound, notLocate>>

\* fill_field or verify_fill looks one harvested item up
Lookup ==
    /\ lpc \in {"harvested", "changed"}
    /\ \E it \in lItems :
         /\ lTarget' = it
         /\ lFound' = ResolveLocator(lFrames, it)
    /\ lpc' = "resolved"
    /\ UNCHANGED <<lFrames, lItems, notLocate>>

-----------------------------------------------------------------------------
(* core/filler.py: _select_option over the options of a native select *)

\* The most options of a select
MaxOptions == 3

Option(label, value) == [label |-> label, value |-> value]
\* "Abc" (value 1), "ab" (value 2), "cAb" (no value attribute), "x" (value "Ab")
OptionSet ==
    {Option(<<"A", "b", "c">>, <<"1">>), Option(<<"a", "b">>, <<"2">>),
     Option(<<"c", "A", "b">>, <<>>), Option(<<"x">>, <<"A", "b">>)}
Targets == {<<"a", "b">>, <<"A", "b">>, <<"z">>, <<" ">>}

\* the value of an option element: its value attribute, its text without one
OptionValue(o) == IF o.value # <<>> THEN o.value ELSE o.label

\* best_value = opt_value or opt_label
BestValue(o) == IF Strip(o.value) # <<>> THEN Strip(o.value) ELSE Strip(o.label)

\* the loop over the options: an option equal to the target (case-insensitive)
\* ends the loop, an option that contains it replaces best_value
RECURSIVE ScanOptions(_, _, _, _)
ScanOptions(options, i, target, best_value) ==
    IF i > Len(options) THEN best_value
    ELSE LET opt_label == Lower(Strip(options[i].label))
             opt_value == Lower(Strip(options[i].value))
         IN  IF opt_label = target \/ opt_value = target
             THEN BestValue(options[i])
             ELSE IF Contains(target, opt_label) \/ Contains(target, opt_value)
             THEN ScanOptions(options, i + 1, target, BestValue(options[i]))
             ELSE ScanOptions(options, i + 1, target, best_value)

\* locator.select_option(label=...) / (value=...): the first option that has it
ByLabel(options, text) == FirstOf({k \in 1..Len(options) : options[k].label = text})
ByValue(options, text) == FirstOf({k \in 1..Len(options) : OptionValue(options[k]) = text})

NotPicked == [ok |-> FALSE, index |-> 0, by |-> "none"]
Picked(k, step) == [ok |-> TRUE, index |-> k, by |-> step]

\* _select_option: label, then value, then the scan; each Playwright call may
\* also fail on an option that is there
SelectOptionResult(options, value, labelOk, valueOk, scanOk) ==
    LET value_str == Strip(value)
        best_value == ScanOptions(options, 1, Lower(value_str), None)
    IN  IF value_str = <<>> THEN NotPicked
        ELSE IF labelOk /\ ByLabel(options, value_str) > 0
        THEN Picked(ByLabel(options, value_str), "label")
        ELSE IF valueOk /\ ByValue(options, value_str) > 0
        THEN Picked(ByValue(options, value_str), "value")
        ELSE IF scanOk /\ best_value # None /\ ByValue(options, best_value) > 0
        THEN Picked(ByValue(options, best_value), "scan")
        ELSE NotPicked

SelectIdle == sOptions = <<>> /\ sTarget = <<>> /\ sPicked = <<>>

\* one call of _select_option
SelectOption ==
    /\ sPicked = <<>>
    /\ \E labelOk \in BOOLEAN, valueOk \in BOOLEAN, scanOk \in BOOLEAN :
         sPicked' = <<SelectOptionResult(sOptions, sTarget, labelOk, valueOk, scanOk)>>
    /\ UNCHANGED <<sOptions, sTarget, notSelect>>

-----------------------------------------------------------------------------
(* core/dom_mapper.py and main.py: find_form_elements on the main frame of a
   page, in the initial and in the dynamic detection pass.  Every node lies
   in the regular document of the frame; node k is drawn at NodeBox(k). *)

\* The most boxes the visual detector reports
MaxCv == 1

NodeBox(k) == [x |-> 100 + 400 * (k - 1), y |-> 100, w |-> 100, h |-> 20]

\* A visual box: the box of node k itself, a wide box around node k with the
\* same centre, or (k = 0) a box over no element at all
CvShapes == {"tight", "wide"}
CvBoxes == [over : 0..MaxFrameNodes, shape : CvShapes]
CvRect(c) ==
    IF c.over = 0 THEN [x |-> 0, y |-> 300, w |-> 50, h |-> 20]
    ELSE IF c.shape = "tight" THEN NodeBox(c.over)
    ELSE [x |-> 400 * (c.over - 1), y |-> 50, w |-> 300, h |-> 120]

\* One item of _collect_dom_items: made by the walk of the regular document
\* (source "dom") or by the shadow-root walk, which starts from the document
\* (source "shadow_dom", xpath None)
HarvestedItem(nodes, k, source) ==
    [x |-> NodeBox(k).x, y |-> NodeBox(k).y, w |-> NodeBox(k).w, h |-> NodeBox(k).h,
     type |-> nodes[k].tag, selector |-> BuildSelector(nodes[k]),
     xpath |-> IF source = "dom" THEN GetXPath(nodes, k) ELSE NoXPath,
     frame_url |-> MainUrl, frame_name |-> "", source |-> source, node |-> k]

\* the loop over items that keeps the first item of each key
RECURSIVE DedupItems(_, _)
DedupItems(items, seen) ==
    IF items = <<>> THEN <<>>
    ELSE IF ItemKey(Head(items)) \in seen THEN DedupItems(Tail(items), seen)
    ELSE <<Head(items)>> \o DedupItems(Tail(items), seen \cup {ItemKey(Head(items))})

\* _collect_dom_items on the main frame; walked says whether the evaluation of
\* the shadow-root walk returned
CollectFrameItems(nodes, walked) ==
    DedupItems([k \in 1..Len(nodes) |-> HarvestedItem(nodes, k, "dom")]
               \o (IF walked THEN [k \in 1..Len(nodes) |-> HarvestedItem(nodes, k, "shadow_dom")]
                   ELSE <<>>), {})

\* getXPath of get_element_with_transforms: the id, else the name attribute,
\* else the path of tags
GetXPathAtPoint(nodes, k) ==
    IF nodes[k].id = "" /\ nodes[k].name # ""
    THEN [kind |-> "name", tag |-> nodes[k].tag, val |-> nodes[k].name, index |-> 0]
    ELSE GetXPath(nodes, k)

\* get_element_with_transforms on a visual box: the element under its centre
ElementAtPoint(nodes, c) ==
    [x |-> CvRect(c).x, y |-> CvRect(c).y, w |-> CvRect(c).w, h |-> CvRect(c).h,
     type |-> nodes[c.over].tag, selector |-> BuildSelector(nodes[c.over]),
     xpath |-> GetXPathAtPoint(nodes, c.over),
     frame_url |-> MainUrl, frame_name |-> "", source |-> "cv", node |-> c.over]

\* _element_key
ElementKey(e) == <<e.frame_url, e.frame_name, e.selector, XPathOrEmpty(e.xpath), e.type>>

\* _element_identity
IdentityTuple(e) == <<e.frame_url, e.frame_name, e.selector, e.xpath, e.type>>

\* the loop over the surviving detections: a visual box over no element is
\* passed over, and so is an element whose key was seen
RECURSIVE AcceptByKey(_, _, _)
AcceptByKey(nodes, dets, seen_keys) ==
    IF dets = <<>> THEN <<>>
    ELSE LET d == Head(dets)
             hit == d.source # "cv" \/ d.over \in 1..Len(nodes)
             e == IF d.source = "cv" THEN ElementAtPoint(nodes, d) ELSE d
         IN  IF ~hit \/ ElementKey(e) \in seen_keys
             THEN AcceptByKey(nodes, Tail(dets), seen_keys)
             ELSE <<e>> \o AcceptByKey(nodes, Tail(dets), seen_keys \cup {ElementKey(e)})

\* find_form_elements: the visual boxes, then the harvested items, suppressed
\* together and resolved in the order the suppression kept them
FuseDetections(nodes, boxes, walked) ==
    LET cv == [i \in 1..Len(boxes) |->
                [x |-> CvRect(boxes[i]).x, y |-> CvRect(boxes[i]).y,
                 w |-> CvRect(boxes[i]).w, h |-> CvRect(boxes[i]).h,
                 source |-> "cv", over |-> boxes[i].over, shape |-> boxes[i].shape]]
        all_detections == cv \o CollectFrameItems(nodes, walked)
        keep == Dedupe(all_detections, FusionThreshold)
    IN  AcceptByKey(nodes, [i \in 1..Len(keep) |-> all_detections[keep[i]]], {})

\* detect_dynamic_fields returning everything it discovered
AllDiscovered(discovered, seen_elements) == discovered

\* new_elements of detect_dynamic_fields
NewElements(discovered, seen_elements) ==
    SelectSeq(discovered,
              LAMBDA e : IdentityTuple(e) \notin
                            {IdentityTuple(seen_elements[i]) : i \in 1..Len(seen_elements)})

\* the elements of a list at the positions S, in order
RECURSIVE PickAt(_, _, _)
PickAt(seq, S, i) ==
    IF i > Len(seq) THEN <<>>
    ELSE (IF i \in S THEN <<seq[i]>> ELSE <<>>) \o PickAt(seq, S, i + 1)

FuseIdle ==
    /\ uNodes = <<>> /\ uLater = <<>> /\ uBoxes = <<>> /\ uElements = <<>>
    /\ uHanded = <<>> /\ upc = "idle"

\* steps 4 and 5 of process_url: detection and mapping of the page
MapPage ==
    /\ upc = "start"
    /\ \E walked \in BOOLEAN : uElements' = FuseDetections(uNodes, uBoxes, walked)
    /\ upc' = "mapped"
    /\ UNCHANGED <<uNodes, uLater, uBoxes, uHanded, notFuse>>

\* steps 6 and 7: the elements that are classified, confident and have a
\* prefill value are handed to fill_field, in order
FillInitial ==
    /\ upc = "mapped"
    /\ \E S \in SUBSET (1..Len(uElements)) : uHanded' = PickAt(uElements, S, 1)
    /\ upc' = "filled"
    /\ UNCHANGED <<uNodes, uLater, uBoxes, uElements, notFuse>>

\* step 7b: after the fields in uLater arrived the page is mapped again; of
\* the new elements those with a prefill value are handed to fill_field
FillDynamic ==
    /\ upc = "filled" /\ uLater # <<>>
    /\ \E walked \in BOOLEAN :
        LET discovered == FuseDetections(uNodes \o uLater, uBoxes, walked)
            new_elements == NewElements(discovered, uElements)
        IN  \E S \in SUBSET (1..Len(new_elements)) :
                uHanded' = uHanded \o PickAt(new_elements, S, 1)
    /\ upc' = "done"
    /\ UNCHANGED <<uNodes, uLater, uBoxes, uElements, notFuse>>

-----------------------------------------------------------------------------
(* main.py, lines 376-412: the judgement of a clicked submission by
   check_success and the post-submit OCR signal *)

OutcomeIdle == oDom = FALSE /\ oOutcome = <<>>

JudgeSubmission ==
    /\ signal # <<>> /\ oOutcome = <<>>
    /\ \E dom_success \in BOOLEAN :
        /\ oDom' = dom_success
        /\ oOutcome' = <<SubmissionOutcome(dom_success, signal[1])>>
    /\ UNCHANGED <<signalVars, notSignal>>

-----------------------------------------------------------------------------
(* Specifications *)

vars == <<matchVars, signalVars, dedupVars, classifyVars, semanticVars, fillVars, pageVars, coordVars, typedVars, locateVars, selectVars, fuseVars, outcomeVars>>

\* The verifier alone: every pair of values
InitMatch ==
    /\ mExpected \in Values /\ mActual = <<>> /\ mResult = "none"
    /\ SignalIdle /\ DedupIdle /\ ClassifyIdle /\ SemanticIdle /\ FillIdle /\ PageIdle /\ CoordIdle /\ TypedIdle /\ LocateIdle /\ SelectIdle /\ FuseIdle /\ OutcomeIdle
NextMatch == VerifyMatch
SpecMatch == InitMatch /\ [][NextMatch]_vars

\* The post-submit signal alone: every pair of match sets
InitSignal ==
    /\ ocrOk = TRUE /\ sMatches \in MatchSets(SuccessLabels) /\ fMatches = {}
    /\ signal = <<>>
    /\ MatchIdle /\ DedupIdle /\ ClassifyIdle /\ SemanticIdle /\ FillIdle /\ PageIdle /\ CoordIdle /\ TypedIdle /\ LocateIdle /\ SelectIdle /\ FuseIdle /\ OutcomeIdle
NextSignal == ReadSignal \/ JudgeSubmission
SpecSignal == InitSignal /\ [][NextSignal]_vars

\* The suppression alone: every list of detections
InitDedup ==
    /\ detections \in SeqsUpTo(BoxSet, MaxBoxes) /\ dedupBy = "none" /\ kept = <<>>
    /\ rekept = <<>>
    /\ MatchIdle /\ SignalIdle /\ ClassifyIdle /\ SemanticIdle /\ FillIdle /\ PageIdle /\ CoordIdle /\ TypedIdle /\ LocateIdle /\ SelectIdle /\ FuseIdle /\ OutcomeIdle
NextDedup == DedupeBoxes \/ DeduplicateDetections \/ DedupeAgain
SpecDedup == InitDedup /\ [][NextDedup]_vars

\* The classifier alone: every element of the bounded vocabulary, classified
\* repeatedly while the embedding model comes and goes
InitClassify ==
    /\ cInput \in {i \in [text : OcrTexts, tag : ElementTypes,
                          attrs : {[AttrBag(t, n) EXCEPT !["id"] = i] :
                                       t \in TypeAttrs, n \in AttrTexts, i \in IdTexts},
                          fz : FuzzyReports, sem : SemanticReports] :
                        FuzzyConsistent(i.fz, CombinedText(i.text, i.attrs))}
    /\ cResults = <<>>
    /\ SemanticIdle /\ MatchIdle /\ SignalIdle /\ DedupIdle /\ FillIdle /\ PageIdle /\ CoordIdle /\ TypedIdle /\ LocateIdle /\ SelectIdle /\ FuseIdle /\ OutcomeIdle
NextClassify == ClassifyCall
SpecClassify == InitClassify /\ [][NextClassify]_vars

\* fill_field alone: every element and value, every outcome of each interaction
InitFill ==
    /\ fElem \in FillElements /\ fValue \in FillValues
    /\ fpc = "start" /\ fTried = <<>> /\ fResult = "none" /\ fAttempt = 0
    /\ MatchIdle /\ SignalIdle /\ DedupIdle /\ ClassifyIdle /\ SemanticIdle /\ PageIdle /\ CoordIdle /\ TypedIdle /\ LocateIdle /\ SelectIdle /\ FuseIdle /\ OutcomeIdle
NextFill ==
    \/ ResolveSelector \/ ResolveXpath \/ ScrollIntoView \/ ScrollJs
    \/ WaitVisible \/ Toggle \/ SelectByLabel \/ SelectByValue \/ SelectScan
    \/ ProbeContentEditable \/ CeType \/ CeInner \/ Clear \/ ClearFill
    \/ MaskPhone \/ PhoneRaw \/ PhoneDigits \/ MaskDate
    \/ Fill \/ ClickType \/ Focus
SpecFill == InitFill /\ [][NextFill]_vars

\* The batch: every list of URLs, every page behind each URL
Init ==
    /\ urls \in SeqsUpTo(UrlSet, MaxUrls) /\ cursor = 1 /\ batch = "running" /\ pc = "idle"
    /\ page = NoPage /\ pageOpen = FALSE /\ elements = <<>> /\ dynElements = <<>>
    /\ fillable = <<>> /\ idx = 1 /\ filledCount = 0
    /\ result = NewResult(<<"", "">>) /\ results = <<>>
    /\ fillCalls = {} /\ failures = [x \in {} |-> 0]
    /\ MatchIdle /\ SignalIdle /\ DedupIdle /\ ClassifyIdle /\ SemanticIdle /\ FillIdle /\ CoordIdle /\ TypedIdle /\ LocateIdle /\ SelectIdle /\ FuseIdle /\ OutcomeIdle
Next ==
    \/ SkipInvalidUrl \/ StartUrl \/ OpenPage \/ ClassifyNext \/ FinishClassify
    \/ FillNext \/ DetectDynamicFields \/ DynamicNext \/ Submit \/ Interrupt \/ Finally
    \/ NextUrl \/ BatchHalt \/ BatchComplete
Spec == Init /\ [][Next]_vars


\* The coordinate transforms alone: every box under every page metrics
InitCoord ==
    /\ cBox \in ScreenBoxes /\ cMetrics \in Metrics /\ cView = <<>> /\ cBack = <<>>
    /\ MatchIdle /\ SignalIdle /\ DedupIdle /\ ClassifyIdle /\ SemanticIdle /\ FillIdle /\ PageIdle /\ TypedIdle /\ LocateIdle /\ SelectIdle /\ FuseIdle /\ OutcomeIdle
NextCoord == ToViewport \/ ToScreenshot
SpecCoord == InitCoord /\ [][NextCoord]_vars


\* Harvest and lookup alone: every page of the bounded vocabulary
InitLocate ==
    /\ lFrames \in PageFrames /\ lItems = {} /\ lpc = "loaded"
    /\ lTarget = NoItem /\ lFound = NotFound
    /\ MatchIdle /\ SignalIdle /\ DedupIdle /\ ClassifyIdle /\ SemanticIdle /\ FillIdle /\ PageIdle /\ CoordIdle /\ TypedIdle /\ SelectIdle /\ FuseIdle /\ OutcomeIdle
NextLocate == Harvest \/ FrameDetached \/ Lookup
SpecLocate == InitLocate /\ [][NextLocate]_vars


\* The batch over a site whose fields carry no keyword: bare inputs and inputs
\* named "first"
InitHinted ==
    /\ urls \in SeqsUpTo({HintUrl, <<"", "b">>}, MaxUrls) /\ cursor = 1 /\ batch = "running"
    /\ pc = "idle"
    /\ page = NoPage /\ pageOpen = FALSE /\ elements = <<>> /\ dynElements = <<>>
    /\ fillable = <<>> /\ idx = 1 /\ filledCount = 0
    /\ result = NewResult(<<"", "">>) /\ results = <<>>
    /\ fillCalls = {} /\ failures = [x \in {} |-> 0]
    /\ MatchIdle /\ SignalIdle /\ DedupIdle /\ ClassifyIdle /\ SemanticIdle /\ FillIdle /\ CoordIdle /\ TypedIdle /\ LocateIdle /\ SelectIdle /\ FuseIdle /\ OutcomeIdle
SpecHinted == InitHinted /\ [][Next]_vars

\* The batch over a site with a captcha field
InitCaptcha ==
    /\ urls \in SeqsUpTo({CaptchaUrl, <<"", "b">>}, MaxUrls) /\ cursor = 1 /\ batch = "running"
    /\ pc = "idle"
    /\ page = NoPage /\ pageOpen = FALSE /\ elements = <<>> /\ dynElements = <<>>
    /\ fillable = <<>> /\ idx = 1 /\ filledCount = 0
    /\ result = NewResult(<<"", "">>) /\ results = <<>>
    /\ fillCalls = {} /\ failures = [x \in {} |-> 0]
    /\ MatchIdle /\ SignalIdle /\ DedupIdle /\ ClassifyIdle /\ SemanticIdle /\ FillIdle /\ CoordIdle /\ TypedIdle /\ LocateIdle /\ SelectIdle /\ FuseIdle /\ OutcomeIdle
SpecCaptcha == InitCaptcha /\ [][Next]_vars


\* _select_option alone: every list of options and every target
InitSelect ==
    /\ sOptions \in SeqsUpTo(OptionSet, MaxOptions) /\ sTarget \in Targets /\ sPicked = <<>>
    /\ MatchIdle /\ SignalIdle /\ DedupIdle /\ ClassifyIdle /\ SemanticIdle /\ FillIdle /\ PageIdle /\ CoordIdle /\ TypedIdle /\ LocateIdle /\ FuseIdle /\ OutcomeIdle
NextSelect == SelectOption
SpecSelect == InitSelect /\ [][NextSelect]_vars

\* The fusion of visual boxes and harvested items, over every small page
InitFuse ==
    /\ uNodes \in SeqsUpTo(DomNodes, MaxFrameNodes) /\ uNodes # <<>>
    /\ uLater \in SeqsUpTo(DomNodes, 1)
    /\ uBoxes \in {b \in SeqsUpTo(CvBoxes, MaxCv) :
                    \A i \in 1..Len(b) : b[i].over <= Len(uNodes)}
    /\ uElements = <<>> /\ uHanded = <<>> /\ upc = "start"
    /\ MatchIdle /\ SignalIdle /\ DedupIdle /\ ClassifyIdle /\ SemanticIdle /\ FillIdle /\ PageIdle /\ CoordIdle /\ TypedIdle /\ LocateIdle /\ SelectIdle /\ OutcomeIdle
NextFuse == MapPage \/ FillInitial \/ FillDynamic
SpecFuse == InitFuse /\ [][NextFuse]_vars

-----------------------------------------------------------------------------
(* Claims *)

IsPrefixOf(p, s) == Len(p) <= Len(s) /\ SubSeq(s, 1, Len(p)) = p

\* The match policy in the words of the specification, on normalized values
PolicyMatch(a, e) ==
    \/ a = e
    \/ Contains(e, a) \/ Contains(a, e)
    \/ (IsPrefixOf(a, e) \/ IsPrefixOf(e, a)) /\ Len(a) >= 5 /\ Len(e) >= 5
    \/ Len(DigitsOnly(e)) >= 7 /\ Contains(DigitsOnly(e), DigitsOnly(a))
    \/ Len(DigitsOnly(a)) >= 7 /\ Contains(DigitsOnly(a), DigitsOnly(e))

\* C6 as stated: the verdict is a match when the expected value is empty after
\* normalization, and otherwise exactly when the normalized values are equal, one
\* is a substring of the other, one is a prefix of the other (both of 5 characters
\* or more), or the digits of one (7 or more) are contained in the digits of the
\* other.  The code rejects an empty actual value, which is a substring of any
\* expected value.
C6_AsClaimed ==
    mResult # "none" =>
        LET a == NormalizeText(mActual)
            e == NormalizeText(mExpected)
        IN  (mResult = "match") <=> (e = <<>> \/ PolicyMatch(a, e))

\* C6 amended: as stated, except that an empty actual value (after normalization)
\* never matches a non-empty expected value.
C6_MatchPolicy ==
    mResult # "none" =>
        LET a == NormalizeText(mActual)
            e == NormalizeText(mExpected)
        IN  (mResult = "match") <=> (e = <<>> \/ (a # <<>> /\ PolicyMatch(a, e)))

\* A match that only the digit comparison grants: a phone number reformatted
C6_Witness ==
    LET a == NormalizeText(mActual)
        e == NormalizeText(mExpected)
    IN  /\ mResult = "match"
        /\ e # <<>> /\ a # <<>>
        /\ ~Contains(e, a) /\ ~Contains(a, e)
        /\ Len(DigitsOnly(e)) >= 7

\* C7: with both scores at 3 or more the higher wins and a tie is a failure; with
\* one score at 3 or more that outcome is reported; otherwise neither is; success
\* and failure are never reported together.
C7_DecisionRule ==
    signal # <<>> =>
        LET r == signal[1]
            s == IF ocrOk THEN SumOver(sMatches, SuccessWeight) ELSE 0
            f == IF ocrOk THEN SumOver(fMatches, FailureWeight) ELSE 0
        IN  /\ ~(r.success /\ r.failure)
            /\ (s >= 3 /\ f >= 3 /\ f >= s) => (r.failure /\ ~r.success)
            /\ (s >= 3 /\ f >= 3 /\ s > f) => (r.success /\ ~r.failure)
            /\ (s >= 3 /\ f < 3) => (r.success /\ ~r.failure)
            /\ (f >= 3 /\ s < 3) => (r.failure /\ ~r.success)
            /\ (s < 3 /\ f < 3) => (~r.success /\ ~r.failure)

\* A tie of two significant scores, reported as a failure
C7_Witness ==
    /\ signal # <<>> /\ ocrOk
    /\ signal[1].s_score >= 3 /\ signal[1].s_score = signal[1].f_score
    /\ signal[1].failure

\* C10 as stated: of two boxes whose IoU is at or above the threshold exactly one
\* survives, the one of larger area; two boxes whose IoU is below the threshold
\* both survive.  The code divides by the union plus 1e-6, so two boxes whose IoU
\* is exactly the threshold both survive.
C10_AsClaimed ==
    (dedupBy # "none" /\ Len(detections) = 2) =>
        LET thr == IF dedupBy = "fusion" THEN FusionThreshold ELSE VisualThreshold
            a == detections[1]
            b == detections[2]
            atOrAbove == Intersection(a, b) * thr.den >= thr.num * UnionArea(a, b)
        IN  IF atOrAbove
            THEN /\ Len(kept) = 1
                 /\ \A i \in 1..2 : Area(detections[kept[1]]) >= Area(detections[i])
            ELSE Len(kept) = 2

\* C8 as stated: whatever the tag, the type attribute and the attributes, a
\* combined text that contains "captcha" is classified ("captcha", 100).  The
\* code returns ("submit", 98) for a button before it looks at the text.
C8_AsClaimed ==
    \A k \in 1..Len(cResults) :
        Contains(<<"captcha">>, CombinedText(cInput.text, cInput.attrs))
            => cResults[k] = [type |-> "captcha", conf |-> 100]

\* C8 amended: for every element whose tag is not button, whatever its type
\* attribute and attributes, a combined text that contains "captcha" is
\* classified ("captcha", 100).
C8_CaptchaShortCircuit ==
    \A k \in 1..Len(cResults) :
        (cInput.tag # "button"
         /\ Contains(<<"captcha">>, CombinedText(cInput.text, cInput.attrs)))
            => cResults[k] = [type |-> "captcha", conf |-> 100]

\* An input of type email whose OCR text alone says CAPTCHA, classified captcha
C8_Witness ==
    /\ cResults # <<>>
    /\ cInput.tag = "input" /\ cInput.attrs["type"] = "email"
    /\ cInput.text = <<"CAPTCHA">> /\ cInput.attrs["name"] = <<>>
    /\ cResults[1].type = "captcha"

\* C9 as stated: two calls of classify on the same text, tag and attributes
\* return the same result, whatever the availability of the embedding model at
\* each call.  _get_model retries the load at every call, so a call made while
\* the load fails and a later one made when it succeeds differ.
C9_AsClaimed ==
    \A j, k \in 1..Len(cResults) : cResults[j] = cResults[k]

\* C2: fill_field never propagates an exception.  Whatever the element, the
\* value and the interactions that fail, no run ends with an exception raised
\* past the function, and a finished call has returned True or False.
C2_NeverPropagates ==
    /\ fResult # "raised"
    /\ fpc = "done" /\ fTried # <<>> => fResult \in {"True", "False"}

\* A call in which an interaction outside every inner try raised (the
\* visibility wait, the contenteditable probe, focus, check or click) and the
\* call returned False
C2_Witness ==
    /\ fpc = "done" /\ fResult = "False" /\ fTried # <<>>
    /\ fTried[Len(fTried)] \in {"wait", "ce_probe", "focus", "check"}
    /\ fElem.input_type = "" /\ fElem.dom_type = "input"

\* the last fallback of the branch of the element has been attempted
Exhausted ==
    LET last == fTried[Len(fTried)]
    IN  \/ last \in {"check", "click", "select_scan", "select_best", "ce_inner",
                     "phone_digits", "mask_date"}
        \/ last = "phone_raw" /\ ~HasDigits(fValue)
        \/ last = "click_type" /\ fAttempt = FillAttempts - 1
        \/ fElem.input_type = "date" /\ ~HasDigits(fValue)

\* C3 as stated: fill_field returns False, for an element it has located and a
\* value that is not blank, only after the last fallback strategy of the branch
\* has been attempted and has failed; a failing visibility wait, focus or
\* contenteditable probe does not end the sequence while strategies remain.
C3_AsClaimed ==
    (/\ fpc = "done" /\ fResult = "False" /\ ~Blank(fValue)
     /\ \E k \in 1..Len(fTried) : fTried[k] = "scroll")
        => Exhausted

\* C1 as stated: whatever fails inside process_url (navigation error, no
\* fillable fields, rejected submission, submit button not found), process_url
\* returns its result record without raising and process_batch goes on to the
\* next URL: no run of process_url ends raised and the batch never halts.
C1_AsClaimed == pc # "raised" /\ batch # "halted"

\* The skip gate in the words of the specification
SkipGate(field_type, e) ==
    \/ field_type \in {"captcha", "button", "submit", "file", "choice"}
    \/ e.attrs["type"] \in {"checkbox", "radio"}
    \/ e.tag \notin {"input", "textarea", "select"}
    \/ e.failed_attempts >= 2
    \/ e.attrs["type"] = "hidden"

\* C4: in the initial pass and in the dynamic pass, fill_field is never called
\* on an element for which the skip gate holds, and no input of type hidden is
\* in the fillable set.
C4_SkipGateRespected ==
    /\ \A c \in fillCalls : ~SkipGate(c.field_type, c.element)
    /\ \A k \in 1..Len(fillable) : elements[fillable[k]].attrs["type"] # "hidden"

\* A page run with a hidden input in the document, an element skipped by the
\* gate, a fill in the initial pass and a fill in the dynamic pass
C4_Witness ==
    /\ \E k \in 1..Len(page.nodes) : page.nodes[k].attrs["type"] = "hidden"
    /\ \E c \in fillCalls : c.pass = "initial"
    /\ \E c \in fillCalls : c.pass = "dynamic"
    /\ \E k \in 1..Len(dynElements) : dynElements[k].status = "non-fillable"

\* C5 as stated: every failed fill or failed verification of an element adds
\* one to its failed_attempts, in the initial pass and in the dynamic pass: the
\* counter of every element equals the number of its failures.
C5_AsClaimed ==
    /\ \A k \in 1..Len(elements) :
        elements[k].failed_attempts = failures[elements[k].xpath]
    /\ \A k \in 1..Len(dynElements) :
        dynElements[k].failed_attempts = failures[dynElements[k].xpath]

Near(a, b) == a - b <= 1 /\ b - a <= 1

\* C12: a screenshot box converted to viewport space and back is the original
\* box within 1 px in each of x, y, w and h, for every device pixel ratio,
\* scroll offset and crop origin.
C12_RoundTrip ==
    cBack # <<>> =>
        /\ Near(cBack[1].x, cBox.x) /\ Near(cBack[1].y, cBox.y)
        /\ Near(cBack[1].w, cBox.w) /\ Near(cBack[1].h, cBox.h)

\* C12 happens: a box at the largest coordinate, under a fractional pixel ratio,
\* a fractional scroll offset and a cropped screenshot, has gone both ways and
\* came back one pixel short.
C12_Witness ==
    /\ cBack # <<>> /\ cBox.x = MaxPixel
    /\ cMetrics.dpr = Rat(11, 10) /\ cMetrics.scroll_x = Rat(501, 2) /\ cMetrics.origin_x = 16
    /\ cBack[1].x = cBox.x - 1

\* The typed string has the shape "(DDD) DDD-DDDD" over the ten digits d
PhoneShape(t, d) ==
    /\ Len(t) = 14 /\ Len(d) = 10
    /\ t[1] = "(" /\ t[5] = ")" /\ t[6] = " " /\ t[10] = "-"
    /\ <<t[2], t[3], t[4], t[7], t[8], t[9], t[11], t[12], t[13], t[14]>> = d

\* The last ten digits of the value, fewer when it has fewer
LastTenDigits(value) ==
    LET d == DigitsOnly(value)
    IN  [k \in 1..Min(Len(d), 10) |-> d[Len(d) - Min(Len(d), 10) + k]]

TelFilled == fElem.input_type = "tel" /\ fResult = "True" /\ fTyped # <<>>

\* C13 as stated: for every value filled into a tel field, what is typed is
\* "(DDD) DDD-DDDD" over the last 10 digits of the value.  A value with fewer
\* than ten digits is typed as its bare digits, and a value with no digit is
\* typed raw by _type_phone.
C13_AsClaimed ==
    TelFilled => PhoneShape(fTyped[Len(fTyped)], LastTenDigits(fValue))

\* C13: when the mask handler types into a tel field, it types the last 10
\* digits of the value as "(DDD) DDD-DDDD" if the value has at least 10 digits,
\* and the bare digits if it has fewer; "5551234567" is typed "(555) 123-4567".
C13_PhoneMask ==
    (TelFilled /\ fTried[Len(fTried)] = "mask_phone") =>
        LET t == fTyped[Len(fTyped)]
            d == LastTenDigits(fValue)
        IN  /\ Len(d) = 10 => PhoneShape(t, d)
            /\ Len(d) < 10 => t = d
            /\ fValue = <<"5", "5", "5", "1", "2", "3", "4", "5", "6", "7">>
                => t = <<"(", "5", "5", "5", ")", " ", "1", "2", "3", "-", "4", "5", "6", "7">>

\* C13 happens: a value with eleven digits and punctuation was typed by the mask
\* handler, formatted over its last ten digits.
C13_Witness ==
    /\ TelFilled /\ fTried[Len(fTried)] = "mask_phone"
    /\ Len(DigitsOnly(fValue)) = 11
    /\ fTyped = << <<"(", "5", "5", "5", ")", " ", "1", "2", "3", "-", "4", "5", "6", "7">> >>

\* The frame the target was harvested from, while the page still has it
OwnFrame(it) == {f \in 1..Len(lFrames) : lFrames[f].fid = it.at.frame}

\* C14 as stated: the selector and the XPath of a harvested element each resolve
\* to that element or to nothing, never to another element.  Here the page has
\* not changed and the lookup ran in the element's own frame; a bare-tag or
\* shared-name selector still resolves to the first element it matches.
C14_AsClaimed ==
    (lpc = "resolved" /\ lFound # NotFound /\ lFound.frame = lTarget.at.frame
        /\ \A f \in 1..Len(lFrames) : lFrames[f].fid = f - 1)
    => \A f \in OwnFrame(lTarget) :
          /\ LocateSelector(lFrames[f].nodes, lTarget.selector) \in {0, lTarget.at.node}
          /\ LocateXpath(lFrames[f].nodes, lTarget.xpath) \in {0, lTarget.at.node}

\* C15 as stated: the lookup runs only inside the frame recorded for the element
\* and returns nothing when neither locator resolves in that frame.  The frame
\* is found again by url or name only, the first such frame wins, and when no
\* frame has the url or name the main page is searched.
C15_AsClaimed ==
    lpc = "resolved" =>
        /\ lFound # NotFound => lFound.frame = lTarget.at.frame
        /\ OwnFrame(lTarget) = {} => lFound = NotFound

C17_AsClaimed == model = "None" => loadAttempts <= 1

C19_AsClaimed ==
    (pc = "dynamic" /\ page.arrival = "while_filling"
        /\ \E c \in fillCalls : c.pass = "initial") =>
        \A k \in 1..Len(page.later) :
            \E j \in 1..Len(dynElements) : dynElements[j].xpath = Len(page.nodes) + k

\* The options whose visible text or value contains the target, ignoring case
Containing(options, target) ==
    {k \in 1..Len(options) :
        \/ Contains(Lower(Strip(target)), Lower(Strip(options[k].label)))
        \/ Contains(Lower(Strip(target)), Lower(Strip(options[k].value)))}

\* C20 as stated: when the exact label and the exact value match both fail, the
\* option selected is the first one, in document order, whose text or value
\* contains the target, and the fill fails only if no option contains it.  The
\* scan keeps the last containing option, or stops at one equal to the target.
C20_AsClaimed ==
    (sPicked # <<>> /\ sPicked[1].by = "scan"
        /\ ByLabel(sOptions, Strip(sTarget)) = 0 /\ ByValue(sOptions, Strip(sTarget)) = 0) =>
        \A k \in Containing(sOptions, sTarget) : sPicked[1].index <= k

\* C21 as stated: for a tel and for a date field alike, a fill that returns
\* False after the typing by mask failed has made a digit-only typing attempt
\* after it.  The date branch returns False right after the mask handler.
C21_AsClaimed ==
    (fpc = "done" /\ fResult = "False") =>
        \A i \in 1..Len(fTried) :
            fTried[i] \in {"mask_phone", "mask_date"} =>
                \E j \in (i + 1)..Len(fTried) : fTried[j] = "phone_digits"

\* Box a fully contains box b
BoxWithin(a, b) ==
    /\ a.x <= b.x /\ a.y <= b.y
    /\ b.x + b.w <= a.x + a.w /\ b.y + b.h <= a.y + a.h

NameWithPart ==
    LET tokens == Tokens(AttrBlobRaw(LoweredAttrs(cInput.attrs)))
    IN  /\ <<"name">> \in tokens
        /\ \E w \in {"first", "last", "surname", "given", "family"} : <<w>> \in tokens

\* C23 as stated: classify never returns name for an element whose attribute
\* tokens hold name together with first, last, surname, given or family.  The
\* exclusion is written in the token fallback only; the keyword scan, which
\* runs before it, returns name for any blob that contains "name" and none of
\* the first and last name patterns.
C23_AsClaimed ==
    NameWithPart => \A k \in 1..Len(cResults) : cResults[k].type # "name"

C30_AsClaimed ==
    \A i \in 1..Len(uElements) :
        ~(uElements[i].source = "shadow_dom" /\ uElements[i].xpath = NoXPath)

\* C25 as stated: when process_url finishes, by its normal end or through its
\* except clause, the record satisfies fill_attempts = fields_filled +
\* fill_action_failed + fill_verify_failed.  fields_filled is written once,
\* after the dynamic loop; an exception before that leaves it at 0.
C25_AsClaimed ==
    (pc \in {"returned", "raised"} /\ (pc = "returned" \/ result.reason = "error")) =>
        result.fill_attempts =
            result.fields_filled + result.fill_action_failed + result.fill_verify_failed

\* C26 as stated: in every result record fields_filled <= total_fields and
\* total_fields = elements_ready_to_fill, also when the dynamic pass fills
\* fields.  total_fields is the count of the initial pass only, fields_filled
\* counts the fills of both passes.
C26_AsClaimed ==
    /\ result.fields_filled <= result.total_fields
    /\ result.total_fields = result.elements_ready_to_fill

\* C27 as stated: at the end of a run in which an element was classified as
\* captcha, in the initial or in the dynamic pass, the record's
\* captcha_detected flag is true.  The dynamic loop has no captcha branch: the
\* element is skipped as non-fillable and the flag is left alone.
C27_AsClaimed ==
    (/\ pc \in {"returned", "raised"}
     /\ \/ \E k \in 1..Len(elements) : elements[k].classified_as = "captcha"
        \/ \E k \in 1..Len(dynElements) : dynElements[k].classified_as = "captcha")
    => result.captcha_detected

\* C28 as stated: when the failure signal of the post-submit text is set (its
\* failure score is 3 or more and not below the success score), the page is
\* not recorded as success.  A true check_success alone suffices for success, whatever
\* the text signal says.
C28_AsClaimed ==
    (oOutcome # <<>> /\ signal[1].failure) => oOutcome[1].status # "success"

\* verify_fill on a select: the text of the selected option, else the value of
\* the select (every option of the model has a text)
SelectedText(options, k) ==
    IF options[k].label # <<>> THEN options[k].label ELSE OptionValue(options[k])

\* C29 as stated: when _select_option selected an option, by exact label,
\* exact value or the scan, verify_fill with the same value returns true.
\* verify_fill compares the target with the text of the selected option; an
\* option found by its value can have any text.
C29_AsClaimed ==
    (sPicked # <<>> /\ sPicked[1].ok) =>
        IsMatch(SelectedText(sOptions, sPicked[1].index), sTarget)

=============================================================================
